---- MODULE Spec2Model ----
(***************************************************************************)
(* A model of md2html: the recursive transducer iter_nodes (main.rs), the  *)
(* accumulator utils::State, the post-traversal passes of utils::init      *)
(* (footnote resolver, TOC builder, document assembler), the serializer    *)
(* Element::write_recursive (html.rs), the slug generator heading_to_slug  *)
(* (utils.rs) and the text substitution pipeline (replacer.rs).            *)
(*                                                                         *)
(* Strings.  A Rust String is modelled as the sequence of its UTF-8 bytes: *)
(* an ASCII byte is the one-character string of its character ("a", "<"),  *)
(* any other byte is its two-digit upper-case hexadecimal value ("C3").    *)
(* Byte offsets, lengths and char boundaries are therefore those of the    *)
(* program.  Attribute strings, which the program only formats and writes, *)
(* are kept as the TLA+ string of the same bytes (Str).                    *)
(***************************************************************************)
EXTENDS Integers, Sequences, FiniteSets, TLC

VARIABLES
    pc,               \* position in main(), or "call"/"return" of a function under test
    overflow_checks,  \* build profile: TRUE = arithmetic overflow panics (debug), FALSE = wraps (release)
    doc,              \* the children of the root Document node met so far, in document order
    state,            \* utils::State, the traversal accumulator
    section,          \* the output children collected for the Document's Section
    html,             \* the tree returned by utils::init
    out,              \* the bytes produced by Element::to_html
    arg,              \* argument of the function under test (function specifications)
    ret,              \* its result
    heading_levels,   \* the counter array captured by the closure format_heading
    cmd,              \* the Command options and what the file system answers to the run
    files             \* the output files the run has written so far

vars == <<pc, overflow_checks, doc, state, section, html, out, arg, ret, heading_levels,
          cmd, files>>

-----------------------------------------------------------------------------
(* Bounds of the model *)

\* number of children of the root Document node
MaxNodes == 3
\* number of headings handed to the TOC builder
MaxHeadings == 5
\* number of pieces a text under substitution is made of
MaxPieces == 3
\* number of elements handed to heading_to_slug
MaxElements == 3
\* recorded footnote definitions handed to the footnote resolver
MaxDefs == 3
\* children of a node handed to iter_nodes
MaxChildren == 2

-----------------------------------------------------------------------------
(* Strings as byte sequences *)

\* the value of a variable the specification at hand does not use
Idle == "idle"

(* usize arithmetic.  With overflow checks (debug profile) a subtraction    *)
(* below zero panics.  Without (release profile) it wraps modulo 2^64: a    *)
(* wrapped value is held as its representative k in (-2^31, 2^31), a        *)
(* negative k standing for the value 2^64 + k, which is larger than the     *)
(* length of any string of the model.                                       *)

HexDigits == {"0", "1", "2", "3", "4", "5", "6", "7", "8", "9", "A", "B", "C", "D", "E", "F"}

\* UTF-8 continuation bytes 0x80..0xBF
ContinuationBytes == {h \o l : h \in {"8", "9", "A", "B"}, l \in HexDigits}

\* str::is_char_boundary(i), i a 0-based byte offset
is_char_boundary(s, i) ==
    \/ i = 0
    \/ i = Len(s)
    \/ (i < Len(s) /\ s[i + 1] \notin ContinuationBytes)

RECURSIVE Str(_)
\* the TLA+ string holding the bytes of s (what format!("{}", s) contributes)
Str(s) ==
    IF s = <<>> THEN ""
    ELSE IF Len(s) = 1 THEN s[1]
    ELSE Str(SubSeq(s, 1, Len(s) \div 2)) \o Str(SubSeq(s, Len(s) \div 2 + 1, Len(s)))

RECURSIVE Concat(_)
\* concatenation of a sequence of byte strings
Concat(ss) == IF ss = <<>> THEN <<>> ELSE Head(ss) \o Concat(Tail(ss))

RECURSIVE Join(_)
\* [String]::join("") on formatted (TLA+) strings
Join(ss) == IF ss = <<>> THEN "" ELSE Head(ss) \o Join(Tail(ss))

DigitChar == <<"0", "1", "2", "3", "4", "5", "6", "7", "8", "9">>

RECURSIVE Digits(_)
\* Display of an unsigned integer: its decimal digits
Digits(n) == IF n < 10 THEN <<DigitChar[n + 1]>> ELSE Digits(n \div 10) \o <<DigitChar[(n % 10) + 1]>>

DigitValue(c) == CHOOSE d \in 0..9 : DigitChar[d + 1] = c

RECURSIVE ParseDigits(_, _)
ParseDigits(s, acc) ==
    IF s = <<>> THEN acc ELSE ParseDigits(Tail(s), acc * 10 + DigitValue(Head(s)))

\* str::parse::<usize>(): Ok(n) for a non-empty string of decimal digits
\* (an optional leading '+' is accepted by Rust and is not in the labels used here)
parse_usize(s) ==
    IF s # <<>> /\ (\A i \in 1..Len(s) : s[i] \in {DigitChar[d] : d \in 1..10})
    THEN [ok |-> TRUE, v |-> ParseDigits(s, 0)]
    ELSE [ok |-> FALSE, v |-> 0]

-----------------------------------------------------------------------------
(* html.rs: Meta and Element *)

\* Meta::new()
MetaNew == [attrs |-> <<>>, children |-> <<>>]
\* Meta::with_children / with_child / with_attrs / with_attr: each replaces one field wholesale
with_children(m, cs) == [attrs |-> m.attrs, children |-> cs]
with_child(m, c) == [attrs |-> m.attrs, children |-> <<c>>]
with_attrs(m, as) == [attrs |-> as, children |-> m.children]
with_attr(m, a) == [attrs |-> <<a>>, children |-> m.children]

\* an Element variant carrying a Meta
El(t, m) == [attrs |-> m.attrs, children |-> m.children, tag |-> t]
Text(s) == [s |-> s, tag |-> "Text"]
Raw(s) == [s |-> s, tag |-> "Raw"]
Comment(s) == [s |-> s, tag |-> "Comment"]
Empty == [tag |-> "Empty"]

\* the variants write_recursive writes as <tag attrs>children</tag>
ContainerTags ==
    {"Head", "Title", "H1", "H2", "H3", "H4", "H5", "H6", "Blockquote", "Body", "Thead",
     "Ol", "Ul", "Li", "Dl", "Dt", "Dd", "Div", "Table", "Tr", "Th", "Td", "Span", "Style",
     "Section", "I", "P", "Code", "Pre", "B", "S", "Sub", "Sup", "Mark", "A", "U",
     "Details", "Summary", "Tbody"}
\* the variants write_recursive writes as <tag attrs>
VoidTags == {"Link", "Meta", "Hr", "Br", "Img"}

-----------------------------------------------------------------------------
(* replacer.rs: the text substitution pipeline *)

\* the characters \s and split_whitespace take as white space (the ASCII ones)
Whitespace == {" ", "\t", "\n", "\r"}

\* s[i..] starts with tok (i a 0-based byte offset)
starts_with_at(s, i, tok) ==
    /\ i + Len(tok) <= Len(s)
    /\ \A k \in 1..Len(tok) : s[i + k] = tok[k]

\* look_behind that accepts any preceding character
look_behind_any(s, i) == TRUE

\* the look-behind (?<=^|\s) at offset i and the look-ahead (?=$|\s) at offset j
look_behind(s, i) == i = 0 \/ s[i] \in Whitespace
look_ahead(s, j) == j = Len(s) \/ s[j + 1] \in Whitespace

\* One attempt of the regex at offset i: the alternatives are tried in the order
\* they are written; with bounded the look-arounds of EMOTICON_REGEX apply.
\* The token matched, or <<>> when the regex does not match at i.
match_at(tokens, bounded, s, i) ==
    IF bounded /\ ~look_behind(s, i) THEN <<>>
    ELSE LET hits == {k \in 1..Len(tokens) :
                         /\ starts_with_at(s, i, tokens[k])
                         /\ bounded => look_ahead(s, i + Len(tokens[k]))}
         IN  IF hits # {}
             THEN tokens[CHOOSE k \in hits : \A j \in hits : k <= j]
             ELSE <<>>

RECURSIVE find_iter(_, _, _, _)
\* Regex::find_iter: the non-overlapping matches from offset pos on, leftmost first
\* (the search goes on from the leftmost offset at or after pos where the regex matches)
find_iter(tokens, bounded, s, pos) ==
    LET starts == {i \in pos..(Len(s) - 1) : match_at(tokens, bounded, s, i) # <<>>}
    IN  IF starts = {} THEN <<>>
        ELSE LET start == CHOOSE i \in starts : \A j \in starts : i <= j
                 tok == match_at(tokens, bounded, s, start)
             IN  <<[start |-> start, end |-> start + Len(tok)]>>
                     \o find_iter(tokens, bounded, s, start + Len(tok))

\* m.as_str()
as_str(s, m) == SubSeq(s, m.start + 1, m.end)

\* HashMap index map[key] on a table of <<key, value>> pairs
map_get(map, key) == map[CHOOSE k \in 1..Len(map) : map[k][1] = key][2]

\* a < b as usize values (a negative representative is a wrapped, huge value)
usize_lt(a, b) ==
    IF (a < 0) = (b < 0) THEN a < b ELSE b < 0

\* a - b panics: "attempt to subtract with overflow" (overflow checks on)
sub_panics(oc, a, b) == oc /\ usize_lt(a, b)

\* String::replace_range(a..b, with) panics unless a <= b <= len and both lie on char boundaries
range_panics(s, a, b) ==
    \/ a < 0 \/ b < 0
    \/ a > b
    \/ b > Len(s)
    \/ ~is_char_boundary(s, a)
    \/ ~is_char_boundary(s, b)

\* String::replace_range(a..b, with)
replace_range(s, a, b, with) == SubSeq(s, 1, a) \o with \o SubSeq(s, b + 1, Len(s))

Panicked == [s |-> <<>>, ok |-> FALSE]

\* TYPOGRAPHER_REGEX: (\((c|tm|r|p|C|TM|R|P)\))|(\+-|\.\.\.)
TYPOGRAPHER_TOKENS ==
    << <<"(", "c", ")">>, <<"(", "t", "m", ")">>, <<"(", "r", ")">>, <<"(", "p", ")">>,
       <<"(", "C", ")">>, <<"(", "T", "M", ")">>, <<"(", "R", ")">>, <<"(", "P", ")">>,
       <<"+", "-">>, <<".", ".", ".">> >>

\* the symbols: (c) C2 A9, (tm) E2 84 A2, (r) C2 AE, (p) E2 84 97, +- C2 B1, ... E2 80 A6
TYPOGRAPHER ==
    << << <<"(", "c", ")">>, <<"C2", "A9">> >>,
       << <<"(", "C", ")">>, <<"C2", "A9">> >>,
       << <<"(", "t", "m", ")">>, <<"E2", "84", "A2">> >>,
       << <<"(", "T", "M", ")">>, <<"E2", "84", "A2">> >>,
       << <<"(", "r", ")">>, <<"C2", "AE">> >>,
       << <<"(", "R", ")">>, <<"C2", "AE">> >>,
       << <<"(", "p", ")">>, <<"E2", "84", "97">> >>,
       << <<"(", "P", ")">>, <<"E2", "84", "97">> >>,
       << <<"+", "-">>, <<"C2", "B1">> >>,
       << <<".", ".", ".">>, <<"E2", "80", "A6">> >> >>

RECURSIVE typographer_loop_no_offset(_, _, _, _, _)
\* typographer_loop that never corrects the offsets of later matches
typographer_loop_no_offset(oc, text, ms, replaced_text, offset) ==
    IF ms = <<>> THEN [s |-> replaced_text, ok |-> TRUE]
    ELSE LET m == Head(ms)
             typography == map_get(TYPOGRAPHER, as_str(text, m))
         IN  IF range_panics(replaced_text, m.start, m.end)
             THEN Panicked
             ELSE typographer_loop_no_offset(oc, text, Tail(ms),
                                   replace_range(replaced_text, m.start, m.end, typography), 0)

RECURSIVE typographer_loop(_, _, _, _, _)
\* the for_each closure of replace_typographer over the matches ms of text
typographer_loop(oc, text, ms, replaced_text, offset) ==
    IF ms = <<>> THEN [s |-> replaced_text, ok |-> TRUE]
    ELSE LET m == Head(ms)
             typography == map_get(TYPOGRAPHER, as_str(text, m))
             a == m.start - offset
             b == m.end - offset
         IN  IF \/ sub_panics(oc, m.start, offset)
                \/ sub_panics(oc, m.end, offset)
                \/ range_panics(replaced_text, a, b)
                \/ sub_panics(oc, m.end - m.start, Len(typography))
             THEN Panicked
             ELSE typographer_loop(oc, text, Tail(ms),
                                   replace_range(replaced_text, a, b, typography),
                                   offset + ((m.end - m.start) - Len(typography)))

\* replace_typographer(text)
replace_typographer(oc, text) ==
    typographer_loop(oc, text, find_iter(TYPOGRAPHER_TOKENS, FALSE, text, 0), text, 0)

\* EMOTICON_REGEX: the alternatives between (?<=^|\s)( and )(?=$|\s), in order
EMOTICON_TOKENS ==
    <<<<">", ":", "(">>, <<">", ":", "-", "(">>, <<":", "\"", ")">>, <<":", "-", "\"", ")">>,
      <<"<", "/", "3">>, <<"<", "\\", "3">>, <<":", "/">>, <<":", "-", "/">>,
      <<":", "'", "(">>, <<":", "'", "-", "(">>, <<":", ",", "(">>, <<":", ",", "-", "(">>,
      <<":", "(">>, <<":", "-", "(">>, <<"<", "3">>, <<"]", ":", "(">>, <<"]", ":", "-", "(">>,
      <<"o", ":", ")">>, <<"O", ":", ")">>, <<"o", ":", "-", ")">>, <<"O", ":", "-", ")">>,
      <<"0", ":", ")">>, <<"0", ":", "-", ")">>, <<":", "'", ")">>, <<":", "'", "-", ")">>,
      <<":", ",", ")">>, <<":", ",", "-", ")">>, <<":", "'", "D">>, <<":", "'", "-", "D">>,
      <<":", ",", "D">>, <<":", ",", "-", "D">>, <<":", "*">>, <<":", "-", "*">>,
      <<"x", "-", ")">>, <<"X", "-", ")">>, <<":", "|">>, <<":", "-", "|">>, <<":", "o">>,
      <<":", "-", "o">>, <<":", "O">>, <<":", "-", "O">>, <<":", "@">>, <<":", "-", "@">>,
      <<":", "D">>, <<":", "-", "D">>, <<":", ")">>, <<":", "-", ")">>, <<"]", ":", ")">>,
      <<"]", ":", "-", ")">>, <<":", ",", "'", "(">>, <<":", ",", "'", "-", "(">>,
      <<";", "(">>, <<";", "-", "(">>, <<":", "P">>, <<":", "-", "P">>, <<"8", "-", ")">>,
      <<"B", "-", ")">>, <<",", ":", "(">>, <<",", ":", "-", "(">>, <<",", ":", ")">>,
      <<",", ":", "-", ")">>, <<":", "s">>, <<":", "-", "S">>, <<":", "z">>, <<":", "-", "Z">>,
      <<":", "$">>, <<":", "-", "$">>, <<";", ")">>, <<";", "-", ")">> >>

\* EMOTICONS: emoticon -> shortcode
EMOTICONS ==
    <<<<<<">", ":", "(">>, "angry">>, <<<<">", ":", "-", "(">>, "angry">>,
      <<<<":", "\"", ")">>, "blush">>, <<<<":", "-", "\"", ")">>, "blush">>,
      <<<<"<", "/", "3">>, "broken_heart">>, <<<<"<", "\\", "3">>, "broken_heart">>,
      <<<<":", "/">>, "confused">>, <<<<":", "-", "/">>, "confused">>,
      <<<<":", "'", "(">>, "cry">>, <<<<":", "'", "-", "(">>, "cry">>,
      <<<<":", ",", "(">>, "cry">>, <<<<":", ",", "-", "(">>, "cry">>,
      <<<<":", "(">>, "frowning">>, <<<<":", "-", "(">>, "frowning">>,
      <<<<"<", "3">>, "heart">>, <<<<"]", ":", "(">>, "imp">>,
      <<<<"]", ":", "-", "(">>, "imp">>, <<<<"o", ":", ")">>, "innocent">>,
      <<<<"O", ":", ")">>, "innocent">>, <<<<"o", ":", "-", ")">>, "innocent">>,
      <<<<"O", ":", "-", ")">>, "innocent">>, <<<<"0", ":", ")">>, "innocent">>,
      <<<<"0", ":", "-", ")">>, "innocent">>, <<<<":", "'", ")">>, "joy">>,
      <<<<":", "'", "-", ")">>, "joy">>, <<<<":", ",", ")">>, "joy">>,
      <<<<":", ",", "-", ")">>, "joy">>, <<<<":", "'", "D">>, "joy">>,
      <<<<":", "'", "-", "D">>, "joy">>, <<<<":", ",", "D">>, "joy">>,
      <<<<":", ",", "-", "D">>, "joy">>, <<<<":", "*">>, "kissing">>,
      <<<<":", "-", "*">>, "kissing">>, <<<<"x", "-", ")">>, "laughing">>,
      <<<<"X", "-", ")">>, "laughing">>, <<<<":", "|">>, "neutral_face">>,
      <<<<":", "-", "|">>, "neutral_face">>, <<<<":", "o">>, "open_mouth">>,
      <<<<":", "-", "o">>, "open_mouth">>, <<<<":", "O">>, "open_mouth">>,
      <<<<":", "-", "O">>, "open_mouth">>, <<<<":", "@">>, "rage">>,
      <<<<":", "-", "@">>, "rage">>, <<<<":", "D">>, "smile">>, <<<<":", "-", "D">>, "smile">>,
      <<<<":", ")">>, "smiley">>, <<<<":", "-", ")">>, "smiley">>,
      <<<<"]", ":", ")">>, "smiling_imp">>, <<<<"]", ":", "-", ")">>, "smiling_imp">>,
      <<<<":", ",", "'", "(">>, "sob">>, <<<<":", ",", "'", "-", "(">>, "sob">>,
      <<<<";", "(">>, "sob">>, <<<<";", "-", "(">>, "sob">>,
      <<<<":", "P">>, "stuck_out_tongue">>, <<<<":", "-", "P">>, "stuck_out_tongue">>,
      <<<<"8", "-", ")">>, "sunglasses">>, <<<<"B", "-", ")">>, "sunglasses">>,
      <<<<",", ":", "(">>, "sweat">>, <<<<",", ":", "-", "(">>, "sweat">>,
      <<<<",", ":", ")">>, "sweat_smile">>, <<<<",", ":", "-", ")">>, "sweat_smile">>,
      <<<<":", "s">>, "unamused">>, <<<<":", "-", "S">>, "unamused">>,
      <<<<":", "z">>, "unamused">>, <<<<":", "-", "Z">>, "unamused">>,
      <<<<":", "$">>, "unamused">>, <<<<":", "-", "$">>, "unamused">>,
      <<<<";", ")">>, "wink">>, <<<<";", "-", ")">>, "wink">> >>

\* the emojis crate: shortcode -> the UTF-8 bytes of the emoji
EMOJI ==
    <<<<"angry", <<"F0", "9F", "98", "A0">>>>, <<"blush", <<"F0", "9F", "98", "8A">>>>,
      <<"broken_heart", <<"F0", "9F", "92", "94">>>>,
      <<"confused", <<"F0", "9F", "98", "95">>>>, <<"cry", <<"F0", "9F", "98", "A2">>>>,
      <<"frowning", <<"F0", "9F", "98", "A6">>>>,
      <<"heart", <<"E2", "9D", "A4", "EF", "B8", "8F">>>>,
      <<"imp", <<"F0", "9F", "91", "BF">>>>, <<"innocent", <<"F0", "9F", "98", "87">>>>,
      <<"joy", <<"F0", "9F", "98", "82">>>>, <<"kissing", <<"F0", "9F", "98", "97">>>>,
      <<"laughing", <<"F0", "9F", "98", "86">>>>,
      <<"neutral_face", <<"F0", "9F", "98", "90">>>>,
      <<"open_mouth", <<"F0", "9F", "98", "AE">>>>, <<"rage", <<"F0", "9F", "98", "A1">>>>,
      <<"smile", <<"F0", "9F", "98", "84">>>>, <<"smiley", <<"F0", "9F", "98", "83">>>>,
      <<"smiling_imp", <<"F0", "9F", "98", "88">>>>, <<"sob", <<"F0", "9F", "98", "AD">>>>,
      <<"stuck_out_tongue", <<"F0", "9F", "98", "9B">>>>,
      <<"sunglasses", <<"F0", "9F", "98", "8E">>>>, <<"sweat", <<"F0", "9F", "98", "93">>>>,
      <<"sweat_smile", <<"F0", "9F", "98", "85">>>>,
      <<"unamused", <<"F0", "9F", "98", "92">>>>, <<"wink", <<"F0", "9F", "98", "89">>>> >>

\* emojis::get_by_shortcode(code).unwrap().as_str()
get_by_shortcode(code) == map_get(EMOJI, code)

RECURSIVE emoticons_loop(_, _, _, _, _)
\* the for_each closure of replace_emoticons over the matches ms of text
emoticons_loop(oc, text, ms, replaced_text, offset) ==
    IF ms = <<>> THEN [s |-> replaced_text, ok |-> TRUE]
    ELSE LET m == Head(ms)
             emoji == get_by_shortcode(map_get(EMOTICONS, as_str(text, m)))
             a == m.start + offset
             b == m.end + offset
         IN  IF \/ range_panics(replaced_text, a, b)
                \/ sub_panics(oc, Len(emoji), m.end - m.start)
             THEN Panicked
             ELSE emoticons_loop(oc, text, Tail(ms),
                                 replace_range(replaced_text, a, b, emoji),
                                 offset + (Len(emoji) - (m.end - m.start)))

\* replace_emoticons(text)
replace_emoticons(oc, text) ==
    emoticons_loop(oc, text, find_iter(EMOTICON_TOKENS, TRUE, text, 0), text, 0)

-----------------------------------------------------------------------------
(* Specifications of the two substitution passes, each applied to a text    *)
(* made of at most MaxPieces pieces (tokens, parts of tokens, other text,   *)
(* a two-byte character) or to one of the texts of the specification.       *)

RECURSIVE PieceStrings(_, _)
PieceStrings(pieces, n) ==
    IF n = 0 THEN {<<>>}
    ELSE LET shorter == PieceStrings(pieces, n - 1)
         IN  shorter \cup {s \o p : s \in shorter, p \in pieces}

\* "Copyright (c) 2024... done"
TypoExample ==
    <<"C", "o", "p", "y", "r", "i", "g", "h", "t", " ", "(", "c", ")", " ", "2", "0", "2", "4",
      ".", ".", ".", " ", "d", "o", "n", "e">>

TypoPieces ==
    { <<"(", "c", ")">>, <<"(", "T", "M", ")">>, <<"(", "t", "m", ")">>, <<"(", "R", ")">>,
      <<"(", "p", ")">>, <<"+", "-">>, <<".", ".", ".">>, <<".">>, <<"(", "T", "m", ")">>,
      <<"(">>, <<"a", " ">>, <<"C3", "A9">> }

TypoInputs == PieceStrings(TypoPieces, MaxPieces) \cup {TypoExample}

FnIdle ==
    /\ doc = Idle /\ state = Idle /\ section = Idle /\ html = Idle /\ out = Idle
    /\ heading_levels = Idle
    /\ cmd = Idle /\ files = Idle

TypoInit ==
    /\ pc = "call"
    /\ overflow_checks \in BOOLEAN
    /\ arg \in TypoInputs
    /\ ret = Idle
    /\ FnIdle

ReplaceTypographer ==
    /\ pc = "call"
    /\ ret' = replace_typographer(overflow_checks, arg)
    /\ pc' = "return"
    /\ UNCHANGED <<overflow_checks, doc, state, section, html, out, arg, heading_levels, cmd, files>>

SpecTypo == TypoInit /\ [][ReplaceTypographer]_vars

\* the symbol the claim gives each token
C5_Symbol(tok) ==
    CASE tok \in { <<"(", "c", ")">>, <<"(", "C", ")">> } -> <<"C2", "A9">>
      [] tok \in { <<"(", "t", "m", ")">>, <<"(", "T", "M", ")">> } -> <<"E2", "84", "A2">>
      [] tok \in { <<"(", "r", ")">>, <<"(", "R", ")">> } -> <<"C2", "AE">>
      [] tok \in { <<"(", "p", ")">>, <<"(", "P", ")">> } -> <<"E2", "84", "97">>
      [] tok = <<"+", "-">> -> <<"C2", "B1">>
      [] tok = <<".", ".", ".">> -> <<"E2", "80", "A6">>

C5_Tokens ==
    { <<"(", "c", ")">>, <<"(", "C", ")">>, <<"(", "t", "m", ")">>, <<"(", "T", "M", ")">>,
      <<"(", "r", ")">>, <<"(", "R", ")">>, <<"(", "p", ")">>, <<"(", "P", ")">>,
      <<"+", "-">>, <<".", ".", ".">> }

RECURSIVE C5_Forward(_)
\* one forward pass: a token at the front is replaced by its symbol, any other byte is copied
C5_Forward(s) ==
    IF s = <<>> THEN <<>>
    ELSE LET here == {t \in C5_Tokens : starts_with_at(s, 0, t)}
         IN  IF here # {}
             THEN LET t == CHOOSE t \in here : TRUE
                  IN  C5_Symbol(t) \o C5_Forward(SubSeq(s, Len(t) + 1, Len(s)))
             ELSE <<Head(s)>> \o C5_Forward(Tail(s))

\* C5: replace_typographer returns its input with every non-overlapping
\* occurrence of a token, left to right, replaced by its symbol and every
\* other byte unchanged and in order, for any number of matches;
\* "Copyright (c) 2024... done" becomes "Copyright © 2024… done".
C5_TypographerReplacesAll ==
    pc = "return" =>
        /\ ret = [s |-> C5_Forward(arg), ok |-> TRUE]
        /\ arg = TypoExample =>
             ret.s = <<"C", "o", "p", "y", "r", "i", "g", "h", "t", " ", "C2", "A9", " ",
                       "2", "0", "2", "4", "E2", "80", "A6", " ", "d", "o", "n", "e">>

\* three matches, the first two shorter after replacement: "(c)(TM)..."
C5_Witness ==
    /\ pc = "return"
    /\ arg = <<"(", "c", ")", "(", "T", "M", ")", ".", ".", ".">>
    /\ ret.s = <<"C2", "A9", "E2", "84", "A2", "E2", "80", "A6">>

\* "feeling :) today" and "party:)time"
EmoExampleBounded ==
    <<"f", "e", "e", "l", "i", "n", "g", " ", ":", ")", " ", "t", "o", "d", "a", "y">>
EmoExampleUnbounded == <<"p", "a", "r", "t", "y", ":", ")", "t", "i", "m", "e">>

EmoPieces ==
    { <<":", ")">>, <<" ">>, <<"\t">>, <<"<", "3">>, <<":", ",", "'", "-", "(">>, <<":", "(">>,
      <<":", "-", ")">>, <<">">>, <<"a">>, <<"C3", "A9">> }

EmoInputs == PieceStrings(EmoPieces, MaxPieces) \cup {EmoExampleBounded, EmoExampleUnbounded}

EmoInit ==
    /\ pc = "call"
    /\ overflow_checks \in BOOLEAN
    /\ arg \in EmoInputs
    /\ ret = Idle
    /\ FnIdle

ReplaceEmoticons ==
    /\ pc = "call"
    /\ ret' = replace_emoticons(overflow_checks, arg)
    /\ pc' = "return"
    /\ UNCHANGED <<overflow_checks, doc, state, section, html, out, arg, heading_levels, cmd, files>>

SpecEmo == EmoInit /\ [][ReplaceEmoticons]_vars

\* the emoticon tokens and the emoji of each
C6_Tokens == {EMOTICONS[k][1] : k \in 1..Len(EMOTICONS)}
C6_Emoji(tok) == map_get(EMOJI, map_get(EMOTICONS, tok))

\* the length of the run of non-white-space bytes s starts with
RECURSIVE C6_WordLen(_)
C6_WordLen(s) ==
    IF s = <<>> \/ Head(s) \in Whitespace THEN 0 ELSE 1 + C6_WordLen(Tail(s))

RECURSIVE C6_ByWords(_)
\* s with every white-space-delimited word that is an emoticon token replaced by its emoji
C6_ByWords(s) ==
    IF s = <<>> THEN <<>>
    ELSE IF Head(s) \in Whitespace THEN <<Head(s)>> \o C6_ByWords(Tail(s))
    ELSE LET n == C6_WordLen(s)
             w == SubSeq(s, 1, n)
         IN  (IF w \in C6_Tokens THEN C6_Emoji(w) ELSE w) \o C6_ByWords(SubSeq(s, n + 1, Len(s)))

\* the words of s
RECURSIVE C6_Words(_)
C6_Words(s) ==
    IF s = <<>> THEN {}
    ELSE IF Head(s) \in Whitespace THEN C6_Words(Tail(s))
    ELSE LET n == C6_WordLen(s)
         IN  {SubSeq(s, 1, n)} \cup C6_Words(SubSeq(s, n + 1, Len(s)))

\* C6: replace_emoticons replaces an emoticon token exactly where it is
\* preceded by the start of the string or white space and followed by the
\* end of the string or white space: whenever it returns, its result is the
\* input with the white-space-delimited words that are tokens replaced; it
\* fails to return only under overflow checks, on a token longer than its
\* emoji; ":)" in "feeling :) today" becomes the smiley, "party:)time" is
\* returned unchanged.
C6_EmoticonsOnlyWhenBounded ==
    pc = "return" =>
        /\ ret.ok => ret.s = C6_ByWords(arg)
        /\ ~ret.ok =>
             overflow_checks /\ \E w \in C6_Words(arg) \cap C6_Tokens : Len(w) > Len(C6_Emoji(w))
        /\ arg = EmoExampleBounded =>
             ret = [s |-> <<"f", "e", "e", "l", "i", "n", "g", " ", "F0", "9F", "98", "83", " ",
                            "t", "o", "d", "a", "y">>,
                    ok |-> TRUE]
        /\ arg = EmoExampleUnbounded => ret = [s |-> EmoExampleUnbounded, ok |-> TRUE]

C6_Witness ==
    /\ pc = "return"
    /\ arg = EmoExampleBounded
    /\ ret.ok
    /\ ret.s # arg

\* the matches of the emoticon pattern in the argument
C19_Matches == find_iter(EMOTICON_TOKENS, TRUE, arg, 0)

\* emoji.len() - (m.end() - m.start()) of a match, as an integer
C19_Growth(m) ==
    Len(get_by_shortcode(map_get(EMOTICONS, as_str(arg, m)))) - (m.end - m.start)

RECURSIVE C19_Offset(_)
\* the running offset after the first i matches, as an integer
C19_Offset(i) == IF i = 0 THEN 0 ELSE C19_Offset(i - 1) + C19_Growth(C19_Matches[i])

\* C19: on every input replace_emoticons returns, with each token's bytes replaced by
\* its emoji as one forward pass over the input does, and neither a difference
\* emoji.len() - token.len() nor the running offset it is added to is ever below zero
C19_OffsetNeverBelowZero ==
    pc = "return" =>
        /\ ret.ok
        /\ ret.s = C6_ByWords(arg)
        /\ \A i \in 1..Len(C19_Matches) :
                /\ C19_Growth(C19_Matches[i]) >= 0
                /\ C19_Offset(i) >= 0

-----------------------------------------------------------------------------
(* utils.rs: the slug generator *)

RECURSIVE char_len(_, _)
\* the number of bytes of the char that starts at s[i] (1-based): the lead byte and
\* the continuation bytes after it
char_len(s, i) ==
    IF i + 1 <= Len(s) /\ s[i + 1] \in ContinuationBytes THEN 1 + char_len(s, i + 1) ELSE 1

RECURSIVE chars(_)
\* str::chars(): the chars of s, each as its bytes
chars(s) ==
    IF s = <<>> THEN <<>>
    ELSE LET n == char_len(s, 1)
         IN  <<SubSeq(s, 1, n)>> \o chars(SubSeq(s, n + 1, Len(s)))

UpperAscii ==
    <<"A", "B", "C", "D", "E", "F", "G", "H", "I", "J", "K", "L", "M", "N", "O", "P", "Q", "R",
      "S", "T", "U", "V", "W", "X", "Y", "Z">>
LowerAscii ==
    <<"a", "b", "c", "d", "e", "f", "g", "h", "i", "j", "k", "l", "m", "n", "o", "p", "q", "r",
      "s", "t", "u", "v", "w", "x", "y", "z">>

\* Arms of the match in remove_diacritics for chars other than plain ASCII
\* letters, a sample of each shape of arm: an accented letter to its letter
\* (e-acute C3 A9, E-acute C3 89, sharp s C3 9F), a ligature to one letter
\* (AE C3 86: push_str("A")) or to a pair (oe C5 93, dz-caron C7 86).
FOLD_TABLE ==
    << << <<"C3", "A9">>, <<"e">> >>,
       << <<"C3", "89">>, <<"E">> >>,
       << <<"C3", "9F">>, <<"s">> >>,
       << <<"C3", "86">>, <<"A">> >>,
       << <<"C5", "93">>, <<"o", "e">> >>,
       << <<"C7", "86">>, <<"d", "z">> >> >>

\* the arm '·' | '/' | '_' | ',' | ':' | ';' | ' ' | '\n' | '\t' | '\r' (the middle dot is C2 B7)
SEPARATORS ==
    { <<"C2", "B7">>, <<"/">>, <<"_">>, <<",">>, <<":">>, <<";">>, <<" ">>, <<"\n">>, <<"\t">>,
      <<"\r">> }

\* one step of the fold of remove_diacritics: what the match pushes for the char c
fold_char(c) ==
    IF \E k \in 1..Len(FOLD_TABLE) : FOLD_TABLE[k][1] = c THEN map_get(FOLD_TABLE, c)
    ELSE IF c \in SEPARATORS THEN <<"-">>
    ELSE c

RECURSIVE fold_chars(_)
fold_chars(cs) == IF cs = <<>> THEN <<>> ELSE fold_char(Head(cs)) \o fold_chars(Tail(cs))

\* remove_diacritics(string)
remove_diacritics(s) == fold_chars(chars(s))

\* char::to_lowercase for the chars of the model: ASCII capitals, and the
\* Cyrillic capital Zhe (D0 96 -> D0 B6) as a capital outside the fold table
lower_char(c) ==
    IF \E k \in 1..26 : c = <<UpperAscii[k]>>
    THEN <<LowerAscii[CHOOSE k \in 1..26 : c = <<UpperAscii[k]>>]>>
    ELSE IF c = <<"D0", "96">> THEN <<"D0", "B6">>
    ELSE c

RECURSIVE lower_chars(_)
lower_chars(cs) == IF cs = <<>> THEN <<>> ELSE lower_char(Head(cs)) \o lower_chars(Tail(cs))

\* str::to_lowercase()
to_lowercase(s) == lower_chars(chars(s))

\* the complement of the class of NON_ASCII_CHAR, [^a-z0-9 _]: the bytes the regex leaves alone
SLUG_KEPT == {LowerAscii[k] : k \in 1..26} \cup {DigitChar[k] : k \in 1..10} \cup {" ", "_"}

RECURSIVE non_ascii_replace_each(_)
\* the replacement with the class not repeated ([^a-z0-9 _] for [^a-z0-9 _]+)
non_ascii_replace_each(s) ==
    IF s = <<>> THEN <<>>
    ELSE IF Head(s) \in SLUG_KEPT THEN <<Head(s)>> \o non_ascii_replace_each(Tail(s))
    ELSE <<"-">> \o non_ascii_replace_each(Tail(s))

RECURSIVE non_ascii_replace_all(_)
\* NON_ASCII_CHAR.replace_all(s, "-"): every maximal run of bytes outside the class becomes "-"
\* (each byte of a multi-byte char is outside the class, so runs of chars are runs of bytes)
non_ascii_replace_all(s) ==
    IF s = <<>> THEN <<>>
    ELSE IF Head(s) \in SLUG_KEPT THEN <<Head(s)>> \o non_ascii_replace_all(Tail(s))
    ELSE LET rest == non_ascii_replace_all(Tail(s))
         IN  IF Len(s) > 1 /\ s[2] \notin SLUG_KEPT THEN rest ELSE <<"-">> \o rest

RECURSIVE trim_start(_, _)
trim_start(s, c) == IF s # <<>> /\ Head(s) = c THEN trim_start(Tail(s), c) ELSE s

RECURSIVE trim_end(_, _)
trim_end(s, c) ==
    IF s # <<>> /\ s[Len(s)] = c THEN trim_end(SubSeq(s, 1, Len(s) - 1), c) ELSE s

\* str::trim_start_matches(c)
trim_start_matches(s, c) == trim_start(s, c)

\* str::trim_matches(c)
trim_matches(s, c) == trim_end(trim_start(s, c), c)

\* the variants the inner fn iterate of heading_to_slug descends into
ITERATE_TAGS ==
    {"H1", "H2", "H3", "H4", "H5", "H6", "Blockquote", "Body", "Ol", "Ul", "Li", "Dl", "Dt", "Dd",
     "Div", "Table", "Tr", "Th", "Td", "Span", "Section", "I", "P", "Code", "Pre", "B", "S",
     "Sub", "Sup", "Mark", "A", "U", "Link", "Meta", "Hr", "Br", "Img"}

RECURSIVE iterate(_, _), iterate_all(_, _)
\* fn iterate(s, child): s with the text of child appended
iterate(s, child) ==
    IF child.tag = "Text" THEN s \o child.s
    ELSE IF child.tag \in ITERATE_TAGS THEN iterate_all(s, child.children)
    ELSE s

\* the for loops over children / elements
iterate_all(s, elements) ==
    IF elements = <<>> THEN s ELSE iterate_all(iterate(s, Head(elements)), Tail(elements))

\* the id of heading_to_slug, from the collected text
slug_id(text) == trim_matches(non_ascii_replace_all(to_lowercase(remove_diacritics(text))), "-")

\* heading_to_slug called once the permalink anchor is among the elements
heading_to_slug_with_anchor(elements) ==
    LET anchor == [attrs |-> <<>>,
                   children |-> <<[s |-> <<"&", "s", "e", "c", "t", ";">>, tag |-> "Text"]>>,
                   tag |-> "A"]
        text == iterate_all(<<>>, Append(elements, anchor))
    IN  [id |-> slug_id(text), title |-> text]

\* heading_to_slug(elements) -> (id, title)
heading_to_slug(elements) ==
    LET text == iterate_all(<<>>, elements)
    IN  [id |-> slug_id(text), title |-> text]

-----------------------------------------------------------------------------
(* Specification of heading_to_slug, applied to at most MaxElements         *)
(* elements of the kinds the transducer makes of a heading's inline         *)
(* children.                                                                *)

\* "Héllo, World! 100%"
SlugExampleTitle ==
    <<"H", "C3", "A9", "l", "l", "o", ",", " ", "W", "o", "r", "l", "d", "!", " ", "1", "0", "0",
      "%">>

InlineCodeAttr == "class=\"inline-code\""
ExternalMarkAttr == "class=\"fa-solid fa-up-right-from-square href-external\""

SlugElements ==
    { Text(<<"H", "C3", "A9", "l", "l", "o", ",">>),
      Text(<<" ", "W", "o", "r", "l", "d", "!", " ", "1", "0", "0", "%">>),
      Text(<<"-", "-", "x", "_", "-">>),
      Text(<<"C3", "86", "C2", "B7", "C5", "93", "C7", "86">>),
      Text(<<" ">>),
      Raw(<<"<", "b", ">">>),
      El("Br", MetaNew),
      El("I", with_children(MetaNew, <<Text(<<"C3", "89", "_", "a">>), Text(<<"C3", "9F">>)>>)),
      El("Span", with_attr(with_child(MetaNew, Text(<<"a", " ", " ", "B">>)), InlineCodeAttr)),
      El("A", with_children(MetaNew,
            <<Text(<<"D0", "96", "9">>), El("Span", with_attr(MetaNew, ExternalMarkAttr))>>)),
      El("Sup", with_child(MetaNew, El("A", with_child(MetaNew, Text(<<"[", "1", "]">>)))))
    }

ElementSeqs == UNION {[1..n -> SlugElements] : n \in 0..MaxElements}

SlugInit ==
    /\ pc = "call"
    /\ overflow_checks = FALSE
    /\ arg \in ElementSeqs \cup {<<Text(SlugExampleTitle)>>}
    /\ ret = Idle
    /\ FnIdle

HeadingToSlug ==
    /\ pc = "call"
    /\ ret' = heading_to_slug(arg)
    /\ pc' = "return"
    /\ UNCHANGED <<overflow_checks, doc, state, section, html, out, arg, heading_levels, cmd, files>>

SpecSlug == SlugInit /\ [][HeadingToSlug]_vars

RECURSIVE C4_TextOf(_)
\* the text payloads below a sequence of nodes, in order
C4_TextOf(elements) ==
    IF elements = <<>> THEN <<>>
    ELSE LET e == Head(elements)
         IN  (IF e.tag = "Text" THEN e.s
              ELSE IF "children" \in DOMAIN e THEN C4_TextOf(e.children)
              ELSE <<>>) \o C4_TextOf(Tail(elements))

C4_IdChars == {LowerAscii[k] : k \in 1..26} \cup {DigitChar[k] : k \in 1..10}

RECURSIVE C4_Collapse(_, _)
\* every maximal run of bytes outside a-z0-9 becomes one "-" (inRun: the byte before was one)
C4_Collapse(s, inRun) ==
    IF s = <<>> THEN <<>>
    ELSE IF Head(s) \in C4_IdChars THEN <<Head(s)>> \o C4_Collapse(Tail(s), FALSE)
    ELSE (IF inRun THEN <<>> ELSE <<"-">>) \o C4_Collapse(Tail(s), TRUE)

\* the id the claim derives from a title: separators are outside a-z0-9, so
\* mapping them to "-" first changes nothing of the runs
C4_Id(title) == trim_matches(C4_Collapse(to_lowercase(remove_diacritics(title)), FALSE), "-")

\* C4: heading_to_slug returns as title the concatenation, in order, of the
\* text payloads of the elements, and as id the title folded to ASCII, with
\* separators as '-', lower-cased, every maximal run of characters outside
\* a-z0-9 turned into one '-', and '-' trimmed at both ends;
\* "Héllo, World! 100%" gives "hello-world-100".
C4_SlugOfTitle ==
    pc = "return" =>
        /\ ret.title = C4_TextOf(arg)
        /\ ret.id = C4_Id(ret.title)
        /\ ret.title = SlugExampleTitle =>
             ret.id = <<"h", "e", "l", "l", "o", "-", "w", "o", "r", "l", "d", "-", "1", "0", "0">>

\* the example title, collected from two text nodes
C4_Witness ==
    /\ pc = "return"
    /\ Len(arg) = 2
    /\ ret.title = SlugExampleTitle
    /\ ret.id = <<"h", "e", "l", "l", "o", "-", "w", "o", "r", "l", "d", "-", "1", "0", "0">>

-----------------------------------------------------------------------------
(* utils.rs: State, and main.rs: the transducer iter_nodes *)

\* Option<T>
None == [some |-> FALSE]
Some(v) == [v |-> v, some |-> TRUE]

\* DateTime<Utc>::default() and the instant Utc::now() returns during the run
DATE_DEFAULT == "1970-01-01 00:00:00"
DATE_NOW == "2024-01-02 03:04:05"

\* date.format("%e %B, %Y"), as bytes, and date.format("%d/%m/%Y %H:%M:%S")
format_long(date) ==
    IF date = DATE_NOW THEN <<" ", "2", " ", "J", "a", "n", "u", "a", "r", "y", ",", " ", "2", "0", "2", "4">> ELSE <<" ", "1", " ", "J", "a", "n", "u", "a", "r", "y", ",", " ", "1", "9", "7", "0">>
format_stamp(date) ==
    IF date = DATE_NOW THEN "02/01/2024 03:04:05" ELSE "01/01/1970 00:00:00"

\* the empty HashMap
EmptyMap == [k \in {} |-> 0]

\* State::default() with the domain seeded (main.rs 468-469); halt is the
\* model's record of the process ending inside a call: "exit" (must) or "panic"
state_default(domain) ==
    [date |-> DATE_DEFAULT,
     domain |-> domain,
     table_counter |-> 0,
     front_matter |-> None,
     footnote_counter |-> EmptyMap,
     definitions |-> <<>>,
     styles |-> <<>>,
     word_count |-> 0,
     headings |-> <<>>,
     halt |-> "none"]

\* text.split_whitespace().count(): the maximal runs of non-white-space, counted
\* at their first byte
split_whitespace_count(s) ==
    Cardinality({i \in 1..Len(s) :
                    s[i] \notin Whitespace /\ (i = 1 \/ s[i - 1] \in Whitespace)})

\* alignment_to_str
alignment_to_str(alignment) ==
    CASE alignment = "Center" -> "center"
      [] alignment = "Left" -> "left"
      [] alignment = "None" -> "initial"
      [] alignment = "Right" -> "right"

\* the rule pushed for column i (0-based) of the table numbered n
table_rule(n, i, alignment) ==
    ".table-" \o ToString(n) \o " td:nth-child(" \o ToString(i + 1) \o "), .table-"
        \o ToString(n) \o " th:nth-child(" \o ToString(i + 1) \o ") { text-align: "
        \o alignment_to_str(alignment) \o " }"

\* the rule with the enumerate index used as it is (0-based)
table_rules_zero_based(n, alignments) ==
    [i \in 1..Len(alignments) |-> table_rule(n, i - 2, alignments[i])]

\* alignments.iter().enumerate().for_each(...): the rules pushed, in column order
table_rules(n, alignments) ==
    [i \in 1..Len(alignments) |-> table_rule(n, i - 1, alignments[i])]

\* the class attribute of the table's output node
table_class(n) == "class=\"table-" \o ToString(n) \o "\""

\* utils::char_to_taskitem
char_to_taskitem(ch) ==
    LET look == CASE ch = "x" -> <<"square-check", "limegreen">>
                  [] ch = "-" -> <<"square-minus", "grey">>
                  [] ch = "+" -> <<"square-plus", "deepskyblue">>
                  [] ch = "X" -> <<"square-xmark", "red">>
                  [] OTHER -> <<"", "white">>
    IN  El("Span", with_attrs(MetaNew, <<"class=\"fa-solid fa-" \o look[1] \o "\"",
                                         "style=\"color: " \o look[2] \o "\"">>))

\* footnote_entry that numbers the later references from 2
footnote_entry_late(fc, reference) ==
    IF reference \in DOMAIN fc
    THEN [tag |-> <<":">> \o Digits(fc[reference] + 1), fc |-> [fc EXCEPT ![reference] = @ + 1]]
    ELSE [tag |-> <<>>,
          fc |-> [k \in DOMAIN fc \cup {reference} |-> IF k = reference THEN 1 ELSE fc[k]]]

\* footnote_entry with or_insert(0)
footnote_entry_or_insert_0(fc, reference) ==
    IF reference \in DOMAIN fc
    THEN [tag |-> <<":">> \o Digits(fc[reference]), fc |-> [fc EXCEPT ![reference] = @ + 1]]
    ELSE [tag |-> <<>>,
          fc |-> [k \in DOMAIN fc \cup {reference} |-> IF k = reference THEN 0 ELSE fc[k]]]

\* the entry API call of the FootnoteReference arm: the new map and the tag
footnote_entry(fc, reference) ==
    IF reference \in DOMAIN fc
    THEN [tag |-> <<":">> \o Digits(fc[reference]), fc |-> [fc EXCEPT ![reference] = @ + 1]]
    ELSE [tag |-> <<>>,
          fc |-> [k \in DOMAIN fc \cup {reference} |-> IF k = reference THEN 1 ELSE fc[k]]]

\* the output of the FootnoteReference arm
footnote_reference_tag(reference, tag) ==
    El("Sup", with_child(MetaNew,
        El("A", with_attrs(with_child(MetaNew, Text(<<"[">> \o reference \o tag \o <<"]">>)),
                <<"href=\"#footnote-definition-" \o Str(reference) \o "\"",
                  "id=\"footnote-reference-" \o Str(reference) \o Str(tag) \o "\"">>))))

\* {:02x} of a colour channel
hex_02x(n) ==
    LET digit(d) == <<"0", "1", "2", "3", "4", "5", "6", "7", "8", "9",
                      "a", "b", "c", "d", "e", "f">>[d + 1]
    IN  digit(n \div 16) \o digit(n % 16)

\* {:>width$} of a number: spaces on the left up to the width
pad_left(s, width) ==
    IF Len(s) >= width THEN s ELSE [i \in 1..(width - Len(s)) |-> " "] \o s

\* text.replace(">", "&gt;").replace("<", "&lt;")
replace_angle(text) ==
    Concat([i \in 1..Len(text) |->
        CASE text[i] = ">" -> <<"&", "g", "t", ";">>
          [] text[i] = "<" -> <<"&", "l", "t", ";">>
          [] OTHER -> <<text[i]>>])

\* the spans of one line: a region is what highlight_line gives, a foreground colour
\* and the text it covers
line_spans(regions) ==
    [i \in 1..Len(regions) |->
        El("Span", with_attr(with_child(MetaNew, Text(replace_angle(regions[i].text))),
            "style=\"color: #" \o hex_02x(regions[i].foreground.r)
                \o hex_02x(regions[i].foreground.g) \o hex_02x(regions[i].foreground.b)
                \o hex_02x(regions[i].foreground.a) \o ";\""))]

\* highlighter.rs highlight_code: syntax is the name of the syntax find_syntax_by_token
\* found for the info string (None: plain text), lines the regions of each line
highlight_code(syntax, lines) ==
    LET is_plain_text == ~syntax.some
        n == Len(lines)
        width == Len(Digits(n))
        line(i) ==
            El("Div", with_children(MetaNew,
                IF is_plain_text
                THEN <<El("Div", with_children(MetaNew, line_spans(lines[i])))>>
                ELSE <<El("Span", with_attr(
                            with_children(MetaNew, <<Text(pad_left(Digits(i), width) \o <<".">>)>>),
                            "class=\"code-line-number\"")),
                       El("Div", with_attr(with_children(MetaNew, line_spans(lines[i])),
                            "style=\"padding-left: " \o ToString(25 + width * 10) \o "px\""))>>))
    IN  El("Pre", with_attr(
            with_children(MetaNew,
                <<IF ~is_plain_text THEN El("Div", with_child(MetaNew, Text(syntax.v)))
                  ELSE Empty,
                  El("Code", with_children(MetaNew, [i \in 1..n |-> line(i)]))>>),
            "style=\"padding: " \o (IF is_plain_text THEN "20" ELSE "40")
                \o "px 20px 20px 20px\""))

\* the tag of the plain containers: the arm's variant for the node kind
plain_container_tag(node) ==
    CASE node.kind = "Document" -> "Section"
      [] node.kind = "BlockQuote" -> "Blockquote"
      [] node.kind = "List" -> IF node.list_type = "Bullet" THEN "Ul" ELSE "Ol"
      [] node.kind = "Item" -> "Li"
      [] node.kind = "DescriptionTerm" -> "Dt"
      [] node.kind = "DescriptionDetails" -> "Dd"
      [] node.kind = "Paragraph" -> "P"
      [] node.kind = "TableCell" -> "Td"
      [] node.kind = "Emph" -> "I"
      [] node.kind = "Strong" -> "B"
      [] node.kind = "Strikethrough" -> "S"
      [] node.kind = "Insert" -> "U"
      [] node.kind = "Superscript" -> "Sup"
      [] node.kind = "Subscript" -> "Sub"
      [] node.kind = "Highlight" -> "Mark"

PlainContainers ==
    {"Document", "BlockQuote", "List", "Item", "DescriptionTerm", "DescriptionDetails",
     "Paragraph", "TableCell", "Emph", "Strong", "Strikethrough", "Insert", "Superscript",
     "Subscript", "Highlight"}

\* the children of the children of a node, in order (DescriptionList, TaskItem, header row)
RECURSIVE grandchildren(_)
grandchildren(children) ==
    IF children = <<>> THEN <<>> ELSE Head(children).children \o grandchildren(Tail(children))

halted(st) == st.halt # "none"

\* Url::domain(): the host when it is a domain name, None when the url has no host or
\* its host is an IP address
url_domain(href) == IF href.host = "domain" THEN Some(href.name) ELSE None
halt_with(st, how) == [st EXCEPT !.halt = how]

SectionLogoAttr == "class=\"section-logo\""
TaskItemAttr == "class=\"task-item\""
EmptyBoxAttr == "class=\"fa-regular fa-square\""

\* a front-matter block that is kept only when no block came before it
set_front_matter_if_none(st, v) ==
    IF st.front_matter.some THEN [st EXCEPT !.date = DATE_NOW]
    ELSE [st EXCEPT !.front_matter = Some(v), !.date = DATE_NOW]

\* the two assignments of the FrontMatter arm (main.rs 46-47): the parsed value and
\* Utc::now()
set_front_matter(st, v) == [st EXCEPT !.front_matter = Some(v), !.date = DATE_NOW]

RECURSIVE iter_nodes(_, _, _), iter_children(_, _, _), iter_header_cells(_, _, _)
RECURSIVE iter_children_rev(_, _, _)

\* iter_children with the tags collected right to left
iter_children_rev(oc, children, st) ==
    IF children = <<>> \/ halted(st) THEN [st |-> st, tags |-> <<>>]
    ELSE LET first == iter_nodes(oc, Head(children), st)
             rest == iter_children_rev(oc, Tail(children), first.st)
         IN  [st |-> rest.st, tags |-> rest.tags \o <<first.tag>>]

\* node.children().map(|child| iter_nodes(child, state)).collect(): the tags, left to right
iter_children(oc, children, st) ==
    IF children = <<>> \/ halted(st) THEN [st |-> st, tags |-> <<>>]
    ELSE LET first == iter_nodes(oc, Head(children), st)
             rest == iter_children(oc, Tail(children), first.st)
         IN  [st |-> rest.st, tags |-> <<first.tag>> \o rest.tags]

\* the header row taken through the arm of the body rows
iter_header_cells_as_body(oc, cells, st) == iter_children(oc, cells, st)

\* the header arm of TableRow: each cell's children under a Th
iter_header_cells(oc, cells, st) ==
    IF cells = <<>> \/ halted(st) THEN [st |-> st, tags |-> <<>>]
    ELSE LET first == iter_children(oc, Head(cells).children, st)
             rest == iter_header_cells(oc, Tail(cells), first.st)
         IN  [st |-> rest.st,
              tags |-> <<El("Th", with_children(MetaNew, first.tags))>> \o rest.tags]

\* fn iter_nodes(node, state) -> Tag, with the state returned beside the tag
iter_nodes(oc, node, st) ==
    IF halted(st) THEN [tag |-> Empty, st |-> st]
    ELSE CASE node.kind \in PlainContainers ->
            LET r == iter_children(oc, node.children, st)
            IN  [tag |-> El(plain_container_tag(node), with_children(MetaNew, r.tags)),
                 st |-> r.st]
      [] node.kind = "FrontMatter" ->
            \* must(toml::from_str(trimmed)): node.toml is the result of the parse
            IF node.toml.some
            THEN [tag |-> Empty, st |-> set_front_matter(st, node.toml.v)]
            ELSE [tag |-> Empty, st |-> halt_with(st, "exit")]
      [] node.kind = "DescriptionList" ->
            LET r == iter_children(oc, grandchildren(node.children), st)
            IN  [tag |-> El("Dl", with_children(MetaNew, r.tags)), st |-> r.st]
      [] node.kind = "DescriptionItem" -> [tag |-> Empty, st |-> st]
      [] node.kind = "CodeBlock" ->
            [tag |-> highlight_code(node.syntax, node.lines), st |-> st]
      [] node.kind = "HtmlBlock" -> [tag |-> Raw(node.literal), st |-> st]
      [] node.kind = "Heading" ->
            LET r == iter_children(oc, node.children, st)
                slug == heading_to_slug(r.tags)
                id == Str(slug.id)
                anchor == El("A", with_attrs(with_child(MetaNew, Text(<<"&", "s", "e", "c", "t", ";">>)),
                                 <<"href=\"#heading__" \o id \o "\"", SectionLogoAttr>>))
                meta == with_children(with_attr(MetaNew, "id=\"heading__" \o id \o "\""),
                                      Append(r.tags, anchor))
            IN  IF halted(r.st) THEN [tag |-> Empty, st |-> r.st]
                ELSE [tag |-> El("H" \o ToString(node.level), meta),
                      st |-> [r.st EXCEPT !.headings =
                                 Append(@, <<node.level, slug.id, slug.title>>)]]
      [] node.kind = "ThematicBreak" -> [tag |-> El("Hr", MetaNew), st |-> st]
      [] node.kind = "FootnoteDefinition" ->
            LET r == iter_children(oc, node.children, st)
            IN  IF halted(r.st) THEN [tag |-> Empty, st |-> r.st]
                ELSE [tag |-> Empty,
                      st |-> [r.st EXCEPT !.definitions = Append(@, <<node.name, r.tags>>)]]
      [] node.kind = "Table" ->
            LET n == st.table_counter + 1
                st1 == [st EXCEPT !.table_counter = n,
                                  !.styles = @ \o table_rules(n, node.alignments)]
            IN  IF node.children = <<>> THEN [tag |-> Empty, st |-> halt_with(st1, "panic")]
                ELSE LET header == iter_nodes(oc, node.children[1], st1)
                         body == iter_children(oc, Tail(node.children), header.st)
                         meta == with_attr(
                                    with_children(MetaNew,
                                        <<El("Thead", with_child(MetaNew, header.tag)),
                                          El("Tbody", with_children(MetaNew, body.tags))>>),
                                    table_class(body.st.table_counter))
                     IN  [tag |-> El("Table", meta), st |-> body.st]
      [] node.kind = "TableRow" ->
            LET r == IF node.header THEN iter_header_cells(oc, node.children, st)
                     ELSE iter_children(oc, node.children, st)
            IN  [tag |-> El("Tr", with_children(MetaNew, r.tags)), st |-> r.st]
      [] node.kind = "Text" ->
            LET st1 == [st EXCEPT !.word_count = @ + split_whitespace_count(node.text)]
                typo == replace_typographer(oc, node.text)
                emo == IF typo.ok THEN replace_emoticons(oc, typo.s) ELSE typo
            IN  IF emo.ok THEN [tag |-> Text(emo.s), st |-> st1]
                ELSE [tag |-> Empty, st |-> halt_with(st1, "panic")]
      [] node.kind = "TaskItem" ->
            LET icon == IF node.symbol.some THEN char_to_taskitem(node.symbol.v)
                        ELSE El("Span", with_attr(MetaNew, EmptyBoxAttr))
                r == iter_children(oc, grandchildren(node.children), st)
            IN  [tag |-> El("Li", with_attr(with_children(MetaNew, <<icon>> \o r.tags),
                                            TaskItemAttr)),
                 st |-> r.st]
      [] node.kind \in {"SoftBreak", "LineBreak"} -> [tag |-> El("Br", MetaNew), st |-> st]
      [] node.kind = "Code" ->
            [tag |-> El("Span", with_attr(with_child(MetaNew, Text(node.literal)),
                                          InlineCodeAttr)),
             st |-> st]
      [] node.kind = "HtmlInline" -> [tag |-> Raw(node.literal), st |-> st]
      [] node.kind = "Link" ->
            \* node.href is the result of Url::parse(&link.url): None for Err
            LET r == iter_children(oc, node.children, st)
                domain == IF node.href.some THEN url_domain(node.href.v) ELSE None
                mark == IF domain.some /\ domain.v # st.domain
                        THEN <<El("Span", with_attr(MetaNew, ExternalMarkAttr))>>
                        ELSE <<>>
            IN  [tag |-> El("A", with_attrs(with_children(MetaNew, r.tags \o mark),
                                   <<"href=\"" \o Str(node.url) \o "\"",
                                     "title=\"" \o Str(node.title) \o "\"",
                                     "target=\"_blank\"", "rel=\"noreferrer\"">>)),
                 st |-> r.st]
      [] node.kind = "Image" ->
            IF node.children = <<>> THEN [tag |-> Empty, st |-> halt_with(st, "panic")]
            ELSE LET src == <<"src=\"" \o Str(node.url) \o "\"">>
                     alt == IF node.children[1].kind = "Text"
                            THEN <<"alt=\"" \o Str(node.children[1].text) \o "\"">>
                            ELSE <<>>
                 IN  IF node.title # <<>>
                     THEN [tag |-> El("Figure", with_children(MetaNew,
                                     <<El("Img", with_attrs(MetaNew,
                                            src \o alt \o <<"title=\"" \o Str(node.title) \o "\"">>)),
                                       El("Figcaption", with_child(MetaNew, Text(node.title)))>>)),
                           st |-> st]
                     ELSE [tag |-> El("Img", with_attrs(MetaNew, src \o alt)), st |-> st]
      [] node.kind = "FootnoteReference" ->
            LET e == footnote_entry(st.footnote_counter, node.name)
            IN  [tag |-> footnote_reference_tag(node.name, e.tag),
                 st |-> [st EXCEPT !.footnote_counter = e.fc]]
      [] node.kind = "ShortCode" ->
            \* node.emoji is short_code.emoji(), the emoji the parser resolved
            [tag |-> El("Span", with_child(MetaNew, Text(node.emoji))),
             st |-> st]

-----------------------------------------------------------------------------
(* utils.rs: the TOC builder's closure format_heading *)

\* heading_levels = [0; 6]
heading_levels_init == [i \in 0..5 |-> 0]

\* bump_levels with the reset loop left out
bump_levels_no_reset(hl, depth) ==
    [i \in 0..5 |-> IF i = depth - 1 THEN hl[i] + 1 ELSE hl[i]]

\* heading_levels[(depth - 1)] += 1; for i in depth..5 { heading_levels[i] = 0 }
bump_levels(hl, depth) ==
    [i \in 0..5 |->
        IF i = depth - 1 THEN hl[i] + 1
        ELSE IF i >= depth /\ i < 5 THEN 0
        ELSE hl[i]]

Dot == <<".">>

\* the match on depth: format!("{}.{}...", heading_levels[0], ...)
format_numeral(hl, depth) ==
    CASE depth = 1 -> Digits(hl[0])
      [] depth = 2 -> Digits(hl[0]) \o Dot \o Digits(hl[1])
      [] depth = 3 -> Digits(hl[0]) \o Dot \o Digits(hl[1]) \o Dot \o Digits(hl[2])
      [] depth = 4 -> Digits(hl[0]) \o Dot \o Digits(hl[1]) \o Dot \o Digits(hl[2])
                        \o Dot \o Digits(hl[3])
      [] depth = 5 -> Digits(hl[0]) \o Dot \o Digits(hl[1]) \o Dot \o Digits(hl[2])
                        \o Dot \o Digits(hl[3]) \o Dot \o Digits(hl[4])
      [] depth = 6 -> Digits(hl[0]) \o Dot \o Digits(hl[1]) \o Dot \o Digits(hl[2])
                        \o Dot \o Digits(hl[3]) \o Dot \o Digits(hl[4]) \o Dot \o Digits(hl[5])

\* one call of the closure: the new counters and the numeral returned
format_heading(hl, depth) ==
    LET hl2 == bump_levels(hl, depth)
    IN  [hl |-> hl2, numeral |-> format_numeral(hl2, depth)]

-----------------------------------------------------------------------------
(* Specification of the TOC builder's numbering: the closure is called once *)
(* per heading, in the order of state.headings (utils.rs 316-337).          *)

HeadingLevels == 1..6

LevelSeqs == UNION {[1..n -> HeadingLevels] : n \in 0..MaxHeadings}

TocInit ==
    /\ pc = "call"
    /\ overflow_checks = FALSE
    /\ doc = Idle /\ state = Idle /\ section = Idle /\ html = Idle /\ out = Idle
    /\ arg \in LevelSeqs
    /\ ret = <<>>
    /\ heading_levels = heading_levels_init
    /\ cmd = Idle /\ files = Idle

\* the map closure of toc calls format_heading(*depth) for the next heading
FormatHeading ==
    /\ pc = "call"
    /\ Len(ret) < Len(arg)
    /\ LET r == format_heading(heading_levels, arg[Len(ret) + 1])
       IN  /\ heading_levels' = r.hl
           /\ ret' = Append(ret, r.numeral)
    /\ UNCHANGED <<pc, overflow_checks, doc, state, section, html, out, arg, cmd, files>>

\* collect(): all headings numbered
TocDone ==
    /\ pc = "call"
    /\ Len(ret) = Len(arg)
    /\ pc' = "return"
    /\ UNCHANGED <<overflow_checks, doc, state, section, html, out, arg, ret, heading_levels, cmd, files>>

TocNext == FormatHeading \/ TocDone

SpecToc == TocInit /\ [][TocNext]_vars

\* the number of dot-separated components of a numeral
Components(numeral) == Cardinality({i \in 1..Len(numeral) : numeral[i] = "."}) + 1

\* the last dot-separated component of a numeral
LastComponent(numeral) ==
    LET dots == {i \in 1..Len(numeral) : numeral[i] = "."}
        from == IF dots = {} THEN 1 ELSE (CHOOSE i \in dots : \A j \in dots : j <= i) + 1
    IN  SubSeq(numeral, from, Len(numeral))

C2_Levels == <<1, 2, 2, 1, 3>>

\* C2 as stated: headings at levels [1,2,2,1,3] are numbered
\* "1", "1.1", "1.2", "2", "2.1".
C2_AsStated ==
    (pc = "return" /\ arg = C2_Levels)
        => ret = << <<"1">>, <<"1", ".", "1">>, <<"1", ".", "2">>, <<"2">>, <<"2", ".", "1">> >>

\* C2 amended: headings at levels [1,2,2,1,3] are numbered
\* "1", "1.1", "1.2", "2", "2.0.1": the level-3 heading under a fresh
\* level-1 heading shows the zero of the skipped level 2.
C2_TocNumerals ==
    (pc = "return" /\ arg = C2_Levels)
        => ret = << <<"1">>, <<"1", ".", "1">>, <<"1", ".", "2">>, <<"2">>,
                    <<"2", ".", "0", ".", "1">> >>

C2_Witness == pc = "return" /\ arg = C2_Levels /\ Len(ret) = 5

\* C3 as stated: after a heading at level L is processed every slot at index
\* >= L (the level-6 slot at index 5 included) is zero, its numeral has
\* exactly L components, and a heading deeper than the heading right before
\* it has 1 as the last component of its numeral.
C3_DeeperSlotsReset ==
    (pc = "call" /\ Len(ret) > 0) =>
        LET k == Len(ret)
            L == arg[k]
        IN  /\ \A i \in 0..5 : i >= L => heading_levels[i] = 0
            /\ Components(ret[k]) = L
            /\ (k > 1 /\ arg[k - 1] < L) => LastComponent(ret[k]) = <<"1">>

-----------------------------------------------------------------------------
(* utils.rs: init, the post-traversal passes and the document assembler *)

RECURSIVE back_references(_, _, _)
\* for i in 0..n { references.push(A[Text("↩")] href="#footnote-reference-{definition}{:i}") }
back_references(definition, i, n) ==
    IF i >= n THEN <<>>
    ELSE <<El("A", with_attr(with_child(MetaNew, Text(<<"E2", "86", "A9">>)),
                "href=\"#footnote-reference-" \o Str(definition)
                    \o (IF i > 0 THEN ":" \o ToString(i) ELSE "") \o "\""))>>
         \o back_references(definition, i + 1, n)

\* the list item made of one definition and its back-references
footnote_item(definition, references) ==
    El("Li", with_child(MetaNew,
        El("Div", with_attr(with_children(MetaNew, references),
                            "id=\"footnote-definition-" \o Str(definition) \o "\""))))

\* Vec::insert(index, element), index <= len
vec_insert(v, index, e) == SubSeq(v, 1, index) \o <<e>> \o SubSeq(v, index + 1, Len(v))

RECURSIVE resolve_footnotes(_, _, _, _)
\* the loop over state.definitions: the list built, or how the process ended
resolve_footnotes(oc, definitions, footnote_counter, footnotes) ==
    IF definitions = <<>> THEN [halt |-> "none", footnotes |-> footnotes]
    ELSE LET definition == Head(definitions)[1]
             meta == Head(definitions)[2]
             parsed == parse_usize(definition)
         IN  \* state.footnote_counter[&definition]: Index panics on a missing key
             IF definition \notin DOMAIN footnote_counter
             THEN [halt |-> "panic", footnotes |-> footnotes]
             \* must(definition.parse::<usize>())
             ELSE IF ~parsed.ok THEN [halt |-> "exit", footnotes |-> footnotes]
             \* ... - 1
             ELSE IF sub_panics(oc, parsed.v, 1) THEN [halt |-> "panic", footnotes |-> footnotes]
             \* footnotes.insert(index, ...): panics when index > len
             ELSE IF usize_lt(Len(footnotes), parsed.v - 1)
             THEN [halt |-> "panic", footnotes |-> footnotes]
             ELSE resolve_footnotes(oc, Tail(definitions), footnote_counter,
                      vec_insert(footnotes, parsed.v - 1,
                          footnote_item(definition,
                              meta \o back_references(definition, 0,
                                                      footnote_counter[definition]))))

\* the tag links of the front matter
tag_links(tags, domain) ==
    [i \in 1..Len(tags) |->
        El("A", with_attrs(with_child(MetaNew, Text(<<"#">> \o tags[i])),
                <<"href=\"" \o Str(domain) \o "/tags/" \o Str(tags[i]) \o "\"",
                  "class=\"tag\"">>))]

RECURSIVE toc_entries_last_first(_, _)
\* the entries with the closure called on the last heading first
toc_entries_last_first(headings, hl) ==
    IF headings = <<>> THEN <<>>
    ELSE LET last == headings[Len(headings)]
             fh == format_heading(hl, last[1])
         IN  <<El("P", with_attr(
                    with_child(MetaNew,
                        El("A", with_attr(
                            with_child(MetaNew, Text(fh.numeral \o <<".", " ">> \o last[3])),
                            "href=\"#heading__" \o Str(last[2]) \o "\""))),
                    "style=\"padding-left: " \o ToString(last[1] * 20) \o "px\""))>>
             \o toc_entries_last_first(SubSeq(headings, 1, Len(headings) - 1), fh.hl)

RECURSIVE toc_entries(_, _)
\* state.headings.iter().map(...): one P per heading, the closure called in order
toc_entries(headings, hl) ==
    IF headings = <<>> THEN <<>>
    ELSE LET depth == Head(headings)[1]
             id == Head(headings)[2]
             title == Head(headings)[3]
             fh == format_heading(hl, depth)
         IN  <<El("P", with_attr(
                    with_child(MetaNew,
                        El("A", with_attr(
                            with_child(MetaNew, Text(fh.numeral \o <<".", " ">> \o title)),
                            "href=\"#heading__" \o Str(id) \o "\""))),
                    "style=\"padding-left: " \o ToString(depth * 20) \o "px\""))>>
             \o toc_entries(Tail(headings), fh.hl)

\* ["Roboto", "Jetbrains Mono", "Open Sans"] with " " -> "+", joined by "&family="
families == "Roboto&family=Jetbrains+Mono&family=Open+Sans"

\* css_minify's Minifier::minify(css, Level::Three) followed by the scrollbar
\* replace: the external minifier is kept as a mark around its argument
minify(css) == "minify(" \o css \o ")"

\* Tag::Style(minified)
Style(minified) == [s |-> minified, tag |-> "Style"]

\* the reading time, word_count / 120 with its ceiling taken
reading_time_ceil(word_count) == (word_count + 119) \div 120

\* state.word_count / 120
reading_time(word_count) == word_count \div 120

\* the head node
head_of(front_matter, st) ==
    El("Head", with_children(MetaNew,
        <<El("Meta", with_attr(MetaNew, "charset=\"utf-8\"")),
          El("Meta", with_attrs(MetaNew,
                <<"name=\"viewport\"", "content=\"width=device-width, initial-scale=1\"">>)),
          El("Meta", with_attrs(MetaNew,
                <<"property=\"og:title\"", "content=\"" \o Str(front_matter.title) \o "\"">>)),
          El("Link", with_attrs(MetaNew,
                <<"rel=\"stylesheet\"",
                  "href=\"https://fonts.googleapis.com/css2?family=" \o families \o "\"">>)),
          El("Link", with_attrs(MetaNew,
                <<"rel=\"stylesheet\"",
                  "href=\"https://unpkg.com/@fortawesome/fontawesome-free/css/all.min.css\"">>)),
          El("Title", with_child(MetaNew, Text(front_matter.title))),
          Style(minify(Join(st.styles)))>>))

\* the span showing the reading time and the date
reading_span(st) ==
    El("Span", with_child(MetaNew,
        Text(Digits(reading_time(st.word_count)) \o <<" ", "m", "i", "n", " ", "r", "e", "a", "d", " ", "&", "b", "u", "l", "l", ";", " ">>
             \o format_long(st.date))))

\* the body node
body_of(front_matter, st, section_tag, footnotes) ==
    El("Body", with_children(MetaNew,
        <<Comment("META_CONTAINER_START"),
          El("H1", with_child(MetaNew, Text(front_matter.title))),
          El("Div", with_children(MetaNew, tag_links(front_matter.tags, st.domain))),
          El("Div", with_attr(with_children(MetaNew,
                <<El("Img", with_attrs(MetaNew,
                        <<"src=\"" \o Str(front_matter.avatar) \o "\"",
                          "alt=\"" \o Str(front_matter.author) \o "\"">>)),
                  El("Span", with_child(MetaNew,
                        El("A", with_attr(with_child(MetaNew, Text(front_matter.author)),
                              "href=\"" \o Str(st.domain) \o "/authors/"
                                  \o Str(front_matter.author) \o "\"")))),
                  reading_span(st)>>),
                "class=\"meta-container\"")),
          Comment("META_CONTAINER_END"),
          Comment("TOC_START"),
          El("Details", with_children(MetaNew,
                <<El("Summary", with_child(MetaNew,
                        El("Span", with_child(MetaNew, Text(<<"T", "a", "b", "l", "e", " ", "o", "f", " ", "C", "o", "n", "t", "e", "n", "t", "s">>))))),
                  El("Div", with_children(MetaNew,
                        toc_entries(st.headings, heading_levels_init)))>>)),
          Comment("TOC_END"),
          Comment("BLOG_SECTION_START"),
          section_tag,
          Comment("BLOG_SECTION_END"),
          Comment("FOOTNOTES_START"),
          El("Section", with_children(MetaNew,
                <<El("Hr", MetaNew), El("Ol", with_children(MetaNew, footnotes))>>)),
          Comment("FOOTNOTES_END")>>))

\* the byte 0x60 of the generated-by comment, held as its hexadecimal value like the
\* non-ASCII bytes (a TLA+ string cannot hold the character)
BACKTICK == "60"

\* Tag::Html with its two boxes the other way round
Html_body_first(head, body) == [tag |-> "Html", body |-> head, head |-> body]

\* Tag::Html(head, body)
Html(head, body) == [tag |-> "Html", body |-> body, head |-> head]

\* utils.rs 240-433: what init does once it holds the front matter
init_with(oc, front_matter, section_tag, st) ==
    LET resolved == resolve_footnotes(oc, st.definitions, st.footnote_counter, <<>>)
    IN  IF resolved.halt # "none" THEN [tag |-> Empty, halt |-> resolved.halt]
        ELSE [tag |-> El("Doctype", with_children(MetaNew,
                  <<Comment("Generated using " \o BACKTICK \o "md2html" \o BACKTICK \o " by "
                            \o BACKTICK \o "Blood Rogue (github.com/blood-rogue)" \o BACKTICK
                            \o " on " \o format_stamp(st.date) \o "."),
                    Html(head_of(front_matter, st),
                         body_of(front_matter, st, section_tag, resolved.footnotes))>>)),
              halt |-> "none"]

\* init with unwrap_or_default() in the place of must(...ok_or_else(...))
init_unwrap_or_default(oc, section_tag, st) ==
    init_with(oc,
              IF st.front_matter.some THEN st.front_matter.v
              ELSE [title |-> <<>>, tags |-> <<>>, avatar |-> <<>>, author |-> <<>>],
              section_tag, st)

\* pub fn init(section, state) -> Tag: the tree, or how the process ended
init(oc, section_tag, st) ==
    IF ~st.front_matter.some THEN [tag |-> Empty, halt |-> "exit"]
    ELSE init_with(oc, st.front_matter.v, section_tag, st)

-----------------------------------------------------------------------------
(* html.rs: the serializer.  The output is the sequence of the writes made  *)
(* to the writer, one element per write!/writeln! call.                     *)

\* tag_name()
tag_name(t) ==
    CASE t = "Head" -> "head" [] t = "Title" -> "title" [] t = "Link" -> "link"
      [] t = "Meta" -> "meta" [] t = "Body" -> "body" [] t = "H1" -> "h1"
      [] t = "H2" -> "h2" [] t = "H3" -> "h3" [] t = "H4" -> "h4" [] t = "H5" -> "h5"
      [] t = "H6" -> "h6" [] t = "P" -> "p" [] t = "Hr" -> "hr" [] t = "Pre" -> "pre"
      [] t = "Blockquote" -> "blockquote" [] t = "Ol" -> "ol" [] t = "Ul" -> "ul"
      [] t = "Li" -> "li" [] t = "Dl" -> "dl" [] t = "Dt" -> "dt" [] t = "Dd" -> "dd"
      [] t = "Div" -> "div" [] t = "Table" -> "table" [] t = "Tr" -> "tr"
      [] t = "Th" -> "th" [] t = "Td" -> "td" [] t = "Img" -> "img" [] t = "A" -> "a"
      [] t = "I" -> "i" [] t = "B" -> "b" [] t = "S" -> "s" [] t = "Sub" -> "sub"
      [] t = "Sup" -> "sup" [] t = "Code" -> "code" [] t = "Mark" -> "mark"
      [] t = "Span" -> "span" [] t = "Br" -> "br" [] t = "Style" -> "style"
      [] t = "Section" -> "section" [] t = "U" -> "u" [] t = "Details" -> "details"
      [] t = "Summary" -> "summary" [] t = "Thead" -> "thead" [] t = "Tbody" -> "tbody"
      [] OTHER -> ""

\* for attr in &meta.attrs { write!(writer, " {attr}") }
write_attrs(attrs) == [i \in 1..Len(attrs) |-> " " \o attrs[i]]

RECURSIVE write_recursive(_), write_children(_), write_children_rev(_)

\* write_children with the children written from the last to the first
write_children_rev(children) ==
    IF children = <<>> THEN <<>>
    ELSE write_children_rev(Tail(children)) \o write_recursive(Head(children))

\* for child in &meta.children { child.write_recursive(writer) }
write_children(children) ==
    IF children = <<>> THEN <<>>
    ELSE write_recursive(Head(children)) \o write_children(Tail(children))

\* pub fn write_recursive(&self, writer)
write_recursive(e) ==
    CASE e.tag = "Doctype" -> <<"<!DOCTYPE html>\n">> \o write_children(e.children)
      [] e.tag = "Html" ->
            <<"<html lang=\"en\">">> \o write_recursive(e.head) \o write_recursive(e.body)
                \o <<"</html>">>
      \* the style node is built from the minified text (utils.rs 373): the text
      \* stands between the tags of the container arm
      [] e.tag = "Style" -> <<"<style", ">", e.s, "</style>">>
      [] e.tag \in ContainerTags \ {"Style"} ->
            <<"<" \o tag_name(e.tag)>> \o write_attrs(e.attrs) \o <<">">>
                \o write_children(e.children) \o <<"</" \o tag_name(e.tag) \o ">">>
      [] e.tag \in VoidTags ->
            <<"<" \o tag_name(e.tag)>> \o write_attrs(e.attrs) \o <<">">>
      [] e.tag = "Comment" -> <<"\n<!-- " \o e.s \o " -->\n">>
      [] e.tag \in {"Text", "Raw"} -> <<Str(e.s)>>
      [] e.tag = "Empty" -> <<>>

\* pub fn to_html(&self)
to_html(e) == write_recursive(e)

-----------------------------------------------------------------------------
(* Specification of a run of main(): the children of the root Document are  *)
(* transduced one by one, left to right (iter_nodes on the Document maps    *)
(* iter_nodes over its children), then utils::init assembles the document   *)
(* and to_html serializes it.  The input tree is the parser's; its nodes    *)
(* are drawn from the menus below.                                          *)

\* input nodes: comrak's NodeValue with the node's children
NFrontMatter(toml) == [children |-> <<>>, kind |-> "FrontMatter", toml |-> toml]
NParagraph(children) == [children |-> children, kind |-> "Paragraph"]
NText(text) == [children |-> <<>>, text |-> text, kind |-> "Text"]
NCode(literal) == [children |-> <<>>, kind |-> "Code", literal |-> literal]
NHtmlInline(literal) == [children |-> <<>>, kind |-> "HtmlInline", literal |-> literal]
NImage(url, title, children) ==
    [children |-> children, title |-> title, kind |-> "Image", url |-> url]
NFootnoteReference(name) == [children |-> <<>>, kind |-> "FootnoteReference", name |-> name]
NFootnoteDefinition(name, children) ==
    [children |-> children, kind |-> "FootnoteDefinition", name |-> name]
NTable(alignments, rows) == [children |-> rows, alignments |-> alignments, kind |-> "Table"]
NTableRow(header, cells) == [children |-> cells, kind |-> "TableRow", header |-> header]
NTableCell(children) == [children |-> children, kind |-> "TableCell"]
NHeading(level, children) == [children |-> children, kind |-> "Heading", level |-> level]

\* cmd.domain_name
DomainName == <<"e", "x", "a", "m", "p", "l", "e", ".", "c", "o", "m">>

\* the front matter a well-formed block parses to
FrontMatterValue ==
    [title |-> <<"P", "o", "s", "t">>,
     tags |-> <<<<"r", "u", "s", "t">>>>,
     avatar |-> <<"a", ".", "p", "n", "g">>,
     author |-> <<"a", "n", "n">>]

\* the results of toml::from_str on a front-matter block: a value or an error
TomlResults == {Some(FrontMatterValue), None}

\* the text of a paragraph with the characters &, < and >
MarkupText == <<"a", "<", "b", " ", "&", " ", "c", ">", "d">>
\* 240 tokens separated by single spaces
LongText == [i \in 1..479 |-> IF i % 2 = 1 THEN "w" ELSE " "]

Label1 == <<"1">>
Label2 == <<"2">>

\* the inline children of the paragraphs of the menu
ParagraphMenu ==
    {<<NFootnoteReference(Label1), NFootnoteReference(Label1), NFootnoteReference(Label1)>>,
     <<NFootnoteReference(Label2), NFootnoteReference(Label1)>>,
     <<NText(MarkupText), NCode(<<"x", "<", "y">>), NHtmlInline(<<"<", "b", "r", ">">>)>>,
     <<NImage(<<"i", ".", "p", "n", "g">>, <<>>, <<NText(<<"t", "w", "o", " ", "w", "o", "r", "d", "s">>)>>)>>}

FootnoteLabels == {Label1, Label2}

AlignmentMenu == {<<"Left", "Center", "None">>, <<"Right">>}

\* a table of one header row and one body row, a cell of one word per column
table_of(alignments) ==
    LET cells == [i \in 1..Len(alignments) |-> NTableCell(<<NText(<<"c">>)>>)]
    IN  NTable(alignments, <<NTableRow(TRUE, cells), NTableRow(FALSE, cells)>>)

pc_after(st) ==
    CASE st.halt = "none" -> "traverse"
      [] st.halt = "exit" -> "exited"
      [] st.halt = "panic" -> "panicked"

\* the paths main tests with exists() before it writes
OUT_PATHS == {"out_path", "logo.png", "styles.css"}

\* the fallible calls of main after utils::init, each wrapped in must
IO_CALLS ==
    {"create_dir_all", "write md.ast", "write html.ast", "write html", "copy logo",
     "read style_sheet", "minify", "write styles.css"}

\* a run's options (--output-ast, --force), the paths that exist before it (none on a
\* first run, the page alone, or all of them), and the call the file system refuses,
\* if any
Commands ==
    [output_ast : BOOLEAN, force : BOOLEAN,
     present : {{}, {"out_path"}, OUT_PATHS},
     fails : IO_CALLS \cup {"none"}]

\* a rerun into a complete output directory on a file system that refuses nothing
cmd_rerun == [output_ast |-> FALSE, force |-> FALSE, present |-> OUT_PATHS, fails |-> "none"]

\* the state of main when parse_document has returned (main.rs 464-468)
Traversing ==
    /\ pc = "traverse"
    /\ overflow_checks \in BOOLEAN
    /\ doc = <<>>
    /\ state = state_default(DomainName)
    /\ section = <<>>
    /\ html = Idle
    /\ out = Idle
    /\ arg = Idle /\ ret = Idle /\ heading_levels = Idle
    /\ files = {}

Init ==
    /\ Traversing
    /\ cmd = cmd_rerun

\* the next child of the Document through iter_nodes with a State of its own
VisitWithOwnState(node) ==
    /\ pc = "traverse"
    /\ Len(doc) < MaxNodes
    /\ LET r == iter_nodes(overflow_checks, node, state_default(state.domain))
       IN  /\ doc' = Append(doc, node)
           /\ state' = r.st
           /\ section' = IF halted(r.st) THEN section ELSE Append(section, r.tag)
           /\ pc' = pc_after(r.st)
    /\ UNCHANGED <<overflow_checks, html, out, arg, ret, heading_levels, cmd, files>>

\* the next child of the Document goes through iter_nodes
Visit(node) ==
    /\ pc = "traverse"
    /\ Len(doc) < MaxNodes
    /\ LET r == iter_nodes(overflow_checks, node, state)
       IN  /\ doc' = Append(doc, node)
           /\ state' = r.st
           /\ section' = IF halted(r.st) THEN section ELSE Append(section, r.tag)
           /\ pc' = pc_after(r.st)
    /\ UNCHANGED <<overflow_checks, html, out, arg, ret, heading_levels, cmd, files>>

VisitFrontMatter == \E toml \in TomlResults : Visit(NFrontMatter(toml))

VisitParagraph == \E children \in ParagraphMenu : Visit(NParagraph(children))

\* the paragraph of 240 tokens, the only text of the document so far, as its
\* first or second child
VisitLongParagraph ==
    /\ Len(doc) <= 1
    /\ state.word_count = 0
    /\ Visit(NParagraph(<<NText(LongText)>>))

VisitFootnoteDefinition ==
    \E name \in FootnoteLabels :
        Visit(NFootnoteDefinition(name, <<NParagraph(<<NText(<<"n", "o", "t", "e">>)>>)>>))

VisitTable == \E alignments \in AlignmentMenu : Visit(table_of(alignments))

VisitHeading == Visit(NHeading(2, <<NText(<<"I", "n", "t", "r", "o">>)>>))

\* main.rs 481: utils::init(iter_nodes(root, &mut state), state)
Assemble ==
    /\ pc = "traverse"
    /\ LET r == init(overflow_checks, El("Section", with_children(MetaNew, section)), state)
       IN  /\ html' = IF r.halt = "none" THEN r.tag ELSE html
           /\ pc' = CASE r.halt = "none" -> "assembled"
                      [] r.halt = "exit" -> "exited"
                      [] r.halt = "panic" -> "panicked"
    /\ UNCHANGED <<overflow_checks, doc, state, section, out, arg, ret, heading_levels, cmd, files>>

\* must(...) on an I/O call: Err when the call is the one the file system refuses
refused(call) == cmd.fails = call

\* main.rs 490-522: the output directory, the two AST dumps, html.to_html()
ToHtml ==
    /\ pc = "assembled"
    /\ IF ("out_path" \notin cmd.present /\ refused("create_dir_all"))
            \/ (cmd.output_ast /\ refused("write md.ast"))
         THEN pc' = "exited" /\ UNCHANGED <<out, files>>
       ELSE IF cmd.output_ast /\ refused("write html.ast")
         THEN pc' = "exited" /\ files' = files \cup {"md.ast"} /\ UNCHANGED out
       ELSE /\ files' = files \cup (IF cmd.output_ast THEN {"md.ast", "html.ast"} ELSE {})
            /\ out' = to_html(html)
            /\ pc' = "written"
    /\ UNCHANGED <<overflow_checks, doc, state, section, html, arg, ret, heading_levels, cmd>>

\* main.rs 524: must(write(&out_path, &html))
WriteHtml ==
    /\ pc = "written"
    /\ IF refused("write html")
         THEN pc' = "exited" /\ UNCHANGED files
       ELSE pc' = "html_written" /\ files' = files \cup {"html"}
    /\ UNCHANGED <<overflow_checks, doc, state, section, html, out, arg, ret, heading_levels, cmd>>

\* main.rs 532-542: the logo is copied when it is missing or --force is given
CopyLogo ==
    /\ pc = "html_written"
    /\ IF "logo.png" \notin cmd.present \/ cmd.force
         THEN IF refused("copy logo")
                THEN pc' = "exited" /\ UNCHANGED files
              ELSE pc' = "logo_done" /\ files' = files \cup {"logo.png"}
       ELSE pc' = "logo_done" /\ UNCHANGED files
    /\ UNCHANGED <<overflow_checks, doc, state, section, html, out, arg, ret, heading_levels, cmd>>

\* main.rs 544-557: the base stylesheet is read, minified and written to styles.css
\* when that file is missing or --force is given
WriteStyles ==
    /\ pc = "logo_done"
    /\ IF "styles.css" \notin cmd.present \/ cmd.force
         THEN IF refused("read style_sheet") \/ refused("minify") \/ refused("write styles.css")
                THEN pc' = "exited" /\ UNCHANGED files
              ELSE pc' = "done" /\ files' = files \cup {"styles.css"}
       ELSE pc' = "done" /\ UNCHANGED files
    /\ UNCHANGED <<overflow_checks, doc, state, section, html, out, arg, ret, heading_levels, cmd>>

Next ==
    \/ VisitFrontMatter
    \/ VisitParagraph
    \/ VisitLongParagraph
    \/ VisitFootnoteDefinition
    \/ VisitTable
    \/ VisitHeading
    \/ Assemble
    \/ ToHtml

Spec == Init /\ [][Next]_vars

\* the documents made of headings of every level, the odd levels over a text, the
\* even ones over a text and an inline code
HeadingMenu ==
    { NHeading(level,
               IF level % 2 = 1 THEN <<NText(<<"I", "n", "t", "r", "o">>)>>
               ELSE <<NText(<<"A", " ", "b", " ">>), NCode(<<"x", ".", "y">>)>>) :
        level \in HeadingLevels }

VisitHeadings == \E heading \in HeadingMenu : Visit(heading)

SpecHeadings == Init /\ [][VisitHeadings]_vars

\* the documents made of the paragraphs of the menu and of footnote definitions
FootnotesNext ==
    \/ VisitParagraph
    \/ VisitFootnoteDefinition

SpecFootnotes == Init /\ [][FootnotesNext]_vars

\* a whole run of main, with every option and every refusal of the file system, over
\* the documents made of front-matter blocks and headings
MainInit ==
    /\ Traversing
    /\ cmd \in Commands

MainNext ==
    \/ VisitFrontMatter
    \/ VisitHeading
    \/ Assemble
    \/ ToHtml
    \/ WriteHtml
    \/ CopyLogo
    \/ WriteStyles

SpecMain == MainInit /\ [][MainNext]_vars

-----------------------------------------------------------------------------
(* Properties of a run *)

RECURSIVE traversed(_), traversed_all(_)
\* the input nodes iter_nodes is called on, in call order: an image's children
\* are read, never transduced; the lists of description lists, task items and
\* header rows hand their grandchildren on
traversed_all(nodes) ==
    IF nodes = <<>> THEN <<>> ELSE traversed(Head(nodes)) \o traversed_all(Tail(nodes))
traversed(node) ==
    CASE node.kind = "Image" -> <<node>>
      [] node.kind \in {"DescriptionList", "TaskItem"} ->
            <<node>> \o traversed_all(grandchildren(node.children))
      [] node.kind = "TableRow" /\ node.header ->
            <<node>> \o traversed_all(grandchildren(node.children))
      [] OTHER -> <<node>> \o traversed_all(node.children)

RECURSIVE descendants(_), descendants_all(_)
\* every node of the input trees, in document order
descendants_all(nodes) ==
    IF nodes = <<>> THEN <<>> ELSE descendants(Head(nodes)) \o descendants_all(Tail(nodes))
descendants(node) == <<node>> \o descendants_all(node.children)

RECURSIVE elements(_), elements_all(_)
\* every node of the output trees, in document order
elements_all(tags) ==
    IF tags = <<>> THEN <<>> ELSE elements(Head(tags)) \o elements_all(Tail(tags))
elements(e) ==
    IF "children" \in DOMAIN e THEN <<e>> \o elements_all(e.children) ELSE <<e>>

Range(f) == {f[i] : i \in DOMAIN f}

\* the parts of the tree init returns
body_node(tree) == tree.children[2].body
head_node(tree) == tree.children[2].head
reading_span_of(tree) == body_node(tree).children[4].children[3]
footnotes_of(tree) == body_node(tree).children[13].children[2].children

\* the id of the i-th reference (i from 0) to label L
C1_Id(L, i) ==
    "footnote-reference-" \o Str(L) \o (IF i = 0 THEN "" ELSE ":" \o ToString(i))

\* the number of references to L the traversal met
C1_Count(L) ==
    LET IsRef(n) == n.kind = "FootnoteReference" /\ n.name = L
    IN  Len(SelectSeq(traversed_all(doc), IsRef))

\* the id attributes of the output references to L, in document order
C1_RefIds(L) ==
    LET IsRef(e) == /\ e.tag = "A"
                    /\ Len(e.attrs) = 2
                    /\ e.attrs[1] = "href=\"#footnote-definition-" \o Str(L) \o "\""
        refs == SelectSeq(elements_all(section), IsRef)
    IN  [i \in 1..Len(refs) |-> refs[i].attrs[2]]

\* the back-reference anchors of L, one per reference
C1_Anchors(L) ==
    [i \in 1..C1_Count(L) |->
        [attrs |-> <<"href=\"#" \o C1_Id(L, i - 1) \o "\"">>,
         children |-> <<Text(<<"E2", "86", "A9">>)>>,
         tag |-> "A"]]

\* the item of the definition recorded at position d of state.definitions
C1_Item(d) ==
    LET L == state.definitions[d][1]
    IN  [attrs |-> <<>>,
         children |-> <<[attrs |-> <<"id=\"footnote-definition-" \o Str(L) \o "\"">>,
                         children |-> state.definitions[d][2] \o C1_Anchors(L),
                         tag |-> "Div"]>>,
         tag |-> "Li"]

\* C1: the references to a label L met by the traversal receive, in document
\* order, the ids footnote-reference-L, footnote-reference-L:1, ...,
\* footnote-reference-L:(n-1); in the assembled document the item of a
\* definition of L holds the definition's content followed by exactly n
\* back-reference anchors whose hrefs are "#" and those ids, in that order.
C1_FootnoteIds ==
    /\ state.halt = "none" =>
         \A L \in FootnoteLabels :
             C1_RefIds(L) = [i \in 1..C1_Count(L) |-> "id=\"" \o C1_Id(L, i - 1) \o "\""]
    /\ pc \in {"assembled", "written"} =>
         LET footnotes == footnotes_of(html)
         IN  /\ Len(footnotes) = Len(state.definitions)
             /\ \A d \in 1..Len(state.definitions) :
                    /\ C1_Count(state.definitions[d][1]) >= 1
                    /\ C1_Item(d) \in Range(footnotes)
             /\ \A k \in 1..Len(footnotes) :
                    \E d \in 1..Len(state.definitions) : footnotes[k] = C1_Item(d)

\* label "1" referenced three times and defined: the ids footnote-reference-1,
\* footnote-reference-1:1, footnote-reference-1:2 and three anchors in the item
C1_Witness ==
    /\ pc = "assembled"
    /\ C1_RefIds(Label1) = <<"id=\"footnote-reference-1\"", "id=\"footnote-reference-1:1\"",
                             "id=\"footnote-reference-1:2\"">>
    /\ Len(footnotes_of(html)) = 1
    /\ Len(footnotes_of(html)[1].children[1].children) = 4
    /\ footnotes_of(html)[1].children[1].children[4].attrs
           = <<"href=\"#footnote-reference-1:2\"">>

\* the characters &, < and > escaped
C7_Escape(s) ==
    Concat([i \in 1..Len(s) |->
        CASE s[i] = "&" -> <<"&", "a", "m", "p", ";">>
          [] s[i] = "<" -> <<"&", "l", "t", ";">>
          [] s[i] = ">" -> <<"&", "g", "t", ";">>
          [] OTHER -> <<s[i]>>])

\* the text after the substitution pipeline
C7_Substituted(text) ==
    replace_emoticons(overflow_checks, replace_typographer(overflow_checks, text).s).s

\* C7: in the serialized document the text of every transduced input text node
\* (after substitution) and of every inline code stands with &, < and >
\* escaped, and the payload of every raw node stands byte for byte.
C7_TextEscapedRawVerbatim ==
    pc = "written" =>
        \A n \in Range(traversed_all(doc)) :
            /\ n.kind = "Text" => Str(C7_Escape(C7_Substituted(n.text))) \in Range(out)
            /\ n.kind = "Code" => Str(C7_Escape(n.literal)) \in Range(out)
            /\ n.kind \in {"HtmlInline", "HtmlBlock"} => Str(n.literal) \in Range(out)

\* the whitespace-delimited tokens of a text, counted at their last byte
C8_Tokens(text) ==
    Cardinality({i \in 1..Len(text) :
                    /\ text[i] \notin Whitespace
                    /\ (i = Len(text) \/ text[i + 1] \in Whitespace)})

RECURSIVE C8_Sum(_)
\* the tokens of the text nodes among nodes
C8_Sum(nodes) ==
    IF nodes = <<>> THEN 0
    ELSE (IF Head(nodes).kind = "Text" THEN C8_Tokens(Head(nodes).text) ELSE 0)
         + C8_Sum(Tail(nodes))

\* the span of the assembled document shows the reading time for count words
C8_Shown(count) ==
    reading_span_of(html).children
        = <<Text(Digits(count \div 120) \o <<" ", "m", "i", "n", " ", "r", "e", "a", "d", " ", "&", "b", "u", "l", "l", ";", " ">> \o format_long(state.date))>>

\* C8 as stated: word_count is the sum over all input text nodes.
C8_AllTextNodes ==
    /\ state.halt = "none" => state.word_count = C8_Sum(descendants_all(doc))
    /\ pc \in {"assembled", "written"} => C8_Shown(C8_Sum(descendants_all(doc)))

\* C8: word_count is the sum, over the input text nodes the traversal reaches
\* (the text children of an image are not among them), of the whitespace-
\* delimited tokens of the node's text; the reading time shown is word_count
\* divided by 120, rounded down; a text node of 240 tokens gives 240 and 2.
C8_WordCount ==
    /\ state.halt = "none" => state.word_count = C8_Sum(traversed_all(doc))
    /\ pc \in {"assembled", "written"} => C8_Shown(C8_Sum(traversed_all(doc)))
    /\ (pc = "assembled" /\ \E i \in 1..Len(doc) :
            /\ doc[i] = NParagraph(<<NText(LongText)>>)
            /\ \A j \in 1..Len(doc) : j # i => C8_Sum(traversed(doc[j])) = 0)
        => /\ state.word_count = 240
           /\ Head(reading_span_of(html).children[1].s) = "2"
           /\ reading_span_of(html).children[1].s[2] = " "

\* the paragraph of 240 tokens beside an image with an alternative text of two words
C8_Witness ==
    /\ pc = "assembled"
    /\ NParagraph(<<NText(LongText)>>) \in Range(doc)
    /\ \E n \in Range(doc) : n.kind = "Paragraph" /\ n.children[1].kind = "Image"
    /\ state.word_count = 240
    /\ Head(reading_span_of(html).children[1].s) = "2"

\* the tables of the document and their output nodes, in document order
C9_Tables == SelectSeq(doc, LAMBDA n : n.kind = "Table")
C9_Outputs == SelectSeq(section, LAMBDA e : e.tag = "Table")

\* the number N of the class table-N of an output table
C9_Number(e) ==
    CHOOSE N \in 0..(Len(doc) + 1) : e.attrs = <<"class=\"table-" \o ToString(N) \o "\"">>

\* the text-align value of the claim
C9_Align(alignment) ==
    CASE alignment = "Left" -> "left"
      [] alignment = "Center" -> "center"
      [] alignment = "Right" -> "right"
      [] alignment = "None" -> "initial"

\* the rules of the table numbered N, in column order
C9_Rules(N, alignments) ==
    [i \in 1..Len(alignments) |->
        ".table-" \o ToString(N) \o " td:nth-child(" \o ToString(i) \o "), .table-"
            \o ToString(N) \o " th:nth-child(" \o ToString(i) \o ") { text-align: "
            \o C9_Align(alignments[i]) \o " }"]

\* C9: styles holds, table after table, exactly one rule per column alignment
\* in column order; rule i selects td:nth-child(i) and th:nth-child(i) under
\* the class table-N of that table's output node, N differs from table to
\* table, and text-align is left/center/right or initial for none.
C9_TableRules ==
    state.halt = "none" =>
        /\ Len(C9_Outputs) = Len(C9_Tables)
        /\ \A k \in 1..Len(C9_Outputs) :
               \E N \in 1..Len(doc) :
                   C9_Outputs[k].attrs = <<"class=\"table-" \o ToString(N) \o "\"">>
        /\ \A j, k \in 1..Len(C9_Outputs) :
               j # k => C9_Number(C9_Outputs[j]) # C9_Number(C9_Outputs[k])
        /\ state.styles
               = Concat([k \in 1..Len(C9_Tables) |->
                            C9_Rules(C9_Number(C9_Outputs[k]), C9_Tables[k].alignments)])

\* a table of alignments left, center, none after another table: three rules
\* of the class table-2
C9_Witness ==
    /\ state.halt = "none"
    /\ Len(C9_Tables) = 2
    /\ C9_Tables[2].alignments = <<"Left", "Center", "None">>
    /\ C9_Outputs[2].attrs = <<"class=\"table-2\"">>
    /\ Len(state.styles) = Len(C9_Tables[1].alignments) + 3
    /\ state.styles[Len(state.styles)]
           = ".table-2 td:nth-child(3), .table-2 th:nth-child(3) { text-align: initial }"

-----------------------------------------------------------------------------
(* Specification of the footnote resolver of init (utils.rs 236-262),       *)
(* applied to at most MaxDefs recorded definitions and a counter map.       *)

ResolverLabels == {<<"0">>, <<"1">>, <<"2">>, <<"3">>}

\* an entry of state.definitions: the label and the transduced content
definition_of(label) ==
    <<label, <<El("P", with_child(MetaNew, Text(<<"n", "o", "t", "e">>)))>>>>

DefinitionSeqs ==
    UNION {[1..n -> {definition_of(l) : l \in ResolverLabels}] : n \in 0..MaxDefs}

\* footnote_counter after a traversal: the labels referenced, each with its count
CounterMaps == UNION {[S -> 1..2] : S \in SUBSET ResolverLabels}

ResolverInit ==
    /\ pc = "call"
    /\ overflow_checks \in BOOLEAN
    /\ arg \in [footnote_counter : CounterMaps, definitions : DefinitionSeqs]
    /\ ret = Idle
    /\ FnIdle

ResolveFootnotes ==
    /\ pc = "call"
    /\ ret' = resolve_footnotes(overflow_checks, arg.definitions, arg.footnote_counter, <<>>)
    /\ pc' = "return"
    /\ UNCHANGED <<overflow_checks, doc, state, section, html, out, arg, heading_levels, cmd, files>>

SpecResolver == ResolverInit /\ [][ResolveFootnotes]_vars

\* the labels recorded are "1".."n", each once, in some order, each referenced
C10_Permutation ==
    LET n == Len(arg.definitions)
    IN  /\ n >= 1
        /\ \A k \in 1..n : \E d \in 1..n : arg.definitions[d][1] = Digits(k)
        /\ \A d \in 1..n : arg.definitions[d][1] \in DOMAIN arg.footnote_counter

\* C10: whatever the order in which the definitions of the labels 1..n were
\* recorded, the resolver completes and the item of label k is at position k-1.
C10_AnyOrder ==
    (pc = "return" /\ C10_Permutation) =>
        /\ ret.halt = "none"
        /\ Len(ret.footnotes) = Len(arg.definitions)
        /\ \A k \in 1..Len(ret.footnotes) :
               ret.footnotes[k].children[1].attrs
                   = <<"id=\"footnote-definition-" \o ToString(k) \o "\"">>

\* the value footnote_counter gives for L, 0 for an absent key
C17_Counter(fc, L) == IF L \in DOMAIN fc THEN fc[L] ELSE 0

\* the number of references to L the traversal of the nodes meets
C17_References(nodes, L) ==
    LET IsRef(n) == n.kind = "FootnoteReference" /\ n.name = L
    IN  Len(SelectSeq(traversed_all(nodes), IsRef))

C17_Step ==
    (pc = "traverse" /\ doc' # doc /\ state'.halt = "none") =>
        /\ DOMAIN state'.footnote_counter \subseteq FootnoteLabels
        /\ \A L \in DOMAIN state'.footnote_counter : state'.footnote_counter[L] >= 1
        /\ \A L \in FootnoteLabels :
                /\ C17_Counter(state'.footnote_counter, L)
                      = C17_Counter(state.footnote_counter, L)
                          + C17_References(<<doc'[Len(doc')]>>, L)
                /\ C17_Counter(state'.footnote_counter, L) = C17_References(doc', L)

\* C17: the traversal of a node raises footnote_counter[L] by one for each reference
\* to L in the node, the first reference of the document inserting the key at 1, and
\* changes no other key; the counter of L is the number of references to L met so far
C17_CounterCountsReferences == [][C17_Step]_vars

\* three references to one label and one to the other, then two more
C17_Witness ==
    /\ pc = "traverse"
    /\ Len(doc) = 2
    /\ DOMAIN state.footnote_counter = FootnoteLabels
    /\ state.footnote_counter[Label1] = 4
    /\ state.footnote_counter[Label2] = 1

\* the text of the inline children of a heading of the menu, as the parser holds it
C18_Title(node) ==
    Concat([i \in 1..Len(node.children) |->
        IF node.children[i].kind = "Text" THEN node.children[i].text
        ELSE node.children[i].literal])

C18_Step ==
    (pc = "traverse" /\ doc' # doc /\ state'.halt = "none") =>
        LET node == doc'[Len(doc')]
            title == C18_Title(node)
            id == slug_id(title)
            e == section'[Len(section')]
            n == Len(node.children)
        IN  /\ state'.headings = Append(state.headings, <<node.level, id, title>>)
            /\ Len(section') = Len(section) + 1
            /\ e.tag = "H" \o ToString(node.level)
            /\ e.attrs = <<"id=\"heading__" \o Str(id) \o "\"">>
            /\ Len(e.children) = n + 1
            /\ \A j \in 1..n :
                    e.children[j] = iter_nodes(overflow_checks, node.children[j],
                                               state_default(DomainName)).tag
            /\ e.children[n + 1].tag = "A"
            /\ e.children[n + 1].attrs[1] = "href=\"#heading__" \o Str(id) \o "\""
            /\ e.children[n + 1].children = <<Text(<<"&", "s", "e", "c", "t", ";">>)>>

\* C18: transducing a heading of level L appends one entry to headings, (L, id, title)
\* with the title the text of its children and the id its slug, behind the entries
\* already there; its output is the level-L heading tag with the single attribute
\* id="heading__{id}" over the transduced children followed by the permalink anchor
\* to "#heading__{id}"
C18_HeadingEntryAndAnchor == [][C18_Step]_vars

\* a level-6 heading over a text and a code, after a level-3 and before a level-1 one
C18_Witness ==
    /\ Len(doc) = 3
    /\ state.halt = "none"
    /\ state.headings[1][1] = 3
    /\ state.headings[2] = <<6, <<"a", "-", "b", "-", "x", "-", "y">>, <<"A", " ", "b", " ", "x", ".", "y">>>>
    /\ state.headings[3][1] = 1
    /\ section[2].tag = "H6"
    /\ Len(section[2].children) = 3

\* the text of the file cmd.style_sheet names, the base stylesheet
C14_StyleSheet == "body{margin:0}"

\* C14: the style node of the head holds the minified base stylesheet together with
\* the rules of state.styles, in the order they were pushed
C14_StyleNodeHoldsBaseStylesheet ==
    pc \in {"assembled", "written"} =>
        head_node(html).children[7].s \in
            { minify(C14_StyleSheet \o Join(state.styles)),
              minify(C14_StyleSheet) \o minify(Join(state.styles)),
              C14_StyleSheet \o minify(Join(state.styles)) }

-----------------------------------------------------------------------------
(* Claims about a whole run of main *)

\* the traversal came to its end (no must or panic stopped it) and main went on
traversal_finished == pc # "traverse" /\ state.halt = "none"

\* C11: when the traversal has finished with front_matter still None, the run has
\* exited inside init: no tree was returned, nothing was serialized and no file was
\* written
C11_MissingFrontMatterAborts ==
    (traversal_finished /\ ~state.front_matter.some)
        => (pc = "exited" /\ html = Idle /\ out = Idle /\ files = {})

C11_Witness ==
    /\ traversal_finished /\ ~state.front_matter.some
    /\ Len(doc) > 0
    /\ pc = "exited"

\* init has returned its tree to main
tree_returned == pc \in {"assembled", "written", "html_written", "logo_done", "done"}

\* the generated-by comment for the date of the accumulator
C16_GeneratedBy ==
    Comment("Generated using " \o BACKTICK \o "md2html" \o BACKTICK \o " by " \o BACKTICK
            \o "Blood Rogue (github.com/blood-rogue)" \o BACKTICK \o " on "
            \o format_stamp(state.date) \o ".")

\* the html-root node holds the head and the body
C16_HtmlRoot(e) == e.tag = "Html" /\ e.head.tag = "Head" /\ e.body.tag = "Body"

C12_Outputs ==
    {"html"}
    \cup (IF cmd.output_ast THEN {"md.ast", "html.ast"} ELSE {})
    \cup (IF "logo.png" \notin cmd.present \/ cmd.force THEN {"logo.png"} ELSE {})
    \cup (IF "styles.css" \notin cmd.present \/ cmd.force THEN {"styles.css"} ELSE {})

\* C12: a run that has ended has written all of its output files or none of them,
\* and an aborted run has written none
C12_AllOrNothing ==
    /\ pc \in {"done", "exited", "panicked"} => files \in {{}, C12_Outputs}
    /\ pc \in {"exited", "panicked"} => files = {}

-----------------------------------------------------------------------------
(* Specification of iter_nodes on one node of every kind (main.rs 34-409),   *)
(* called with the accumulator of a fresh run.                               *)

\* the variants of NodeValue the match of iter_nodes names
NODE_KINDS ==
    PlainContainers \cup
    {"FrontMatter", "DescriptionList", "DescriptionItem", "CodeBlock", "HtmlBlock",
     "Heading", "ThematicBreak", "FootnoteDefinition", "Table", "TableRow", "Text",
     "TaskItem", "SoftBreak", "LineBreak", "Code", "HtmlInline", "Link", "Image",
     "FootnoteReference", "ShortCode"}

Node(kind, children) == [children |-> children, kind |-> kind]
NList(list_type, children) == [children |-> children, kind |-> "List", list_type |-> list_type]
NLink(url, title, href, children) ==
    [children |-> children, title |-> title, kind |-> "Link", href |-> href, url |-> url]

\* what Url::parse gives for the urls of the links: Err for a relative reference,
\* a url without host, a host that is an IP address, a host that is a domain name
LinkUrls ==
    { [href |-> None, url |-> <<"/", "a">>],
      [href |-> Some([host |-> "none", name |-> <<>>]),
       url |-> <<"m", "a", "i", "l", "t", "o", ":", "a", "@", "b", ".", "c">>],
      [href |-> Some([host |-> "ipv4", name |-> <<"1", "9", "2", ".", "0", ".", "2", ".", "1">>]),
       url |-> <<"h", "t", "t", "p", ":", "/", "/", "1", "9", "2", ".", "0", ".", "2", ".", "1", "/">>],
      [href |-> Some([host |-> "domain", name |-> DomainName]),
       url |-> <<"h", "t", "t", "p", "s", ":", "/", "/">> \o DomainName \o <<"/", "p">>],
      [href |-> Some([host |-> "domain", name |-> <<"o", ".", "o", "r", "g">>]),
       url |-> <<"h", "t", "t", "p", "s", ":", "/", "/", "o", ".", "o", "r", "g", "/">>] }

\* inline nodes whose output differs from one another
InlineSamples ==
    { NText(<<"a", " ", "b">>), NCode(<<"x">>), NFootnoteReference(Label1),
      Node("Emph", <<NText(<<"e">>)>>), Node("SoftBreak", <<>>) }

InlineSeqs == UNION {[1..n -> InlineSamples] : n \in 0..MaxChildren}

\* the children a container of the kind has in a parsed document: inline nodes,
\* blocks (a paragraph around each inline node), or the items of a list
children_for(kind, inlines) ==
    CASE kind \in {"Paragraph", "TableCell", "Emph", "Strong", "Strikethrough", "Insert",
                   "Superscript", "Subscript", "Highlight"} -> inlines
      [] kind = "List" ->
            [i \in 1..Len(inlines) |-> Node("Item", <<NParagraph(<<inlines[i]>>)>>)]
      [] OTHER -> [i \in 1..Len(inlines) |-> NParagraph(<<inlines[i]>>)]

ContainerSamples ==
    {Node(k, children_for(k, c)) : k \in PlainContainers \ {"List"}, c \in InlineSeqs}
    \cup {NList(t, children_for("List", c)) : t \in {"Bullet", "Ordered"}, c \in InlineSeqs}

\* a description item: a term and its details
description_item ==
    Node("DescriptionItem",
         <<Node("DescriptionTerm", <<NParagraph(<<NText(<<"t">>)>>)>>),
           Node("DescriptionDetails", <<NParagraph(<<NCode(<<"d">>)>>)>>)>>)

\* the regions syntect gives for a line of a code block
region(r, g, b, text) == [text |-> text, foreground |-> [a |-> 255, b |-> b, r |-> r, g |-> g]]

CodeBlockSamples ==
    { [children |-> <<>>,
       syntax |-> None,
       lines |-> << <<region(0, 0, 0, <<"a", "<", "b", "0A">>)>> >>,
       kind |-> "CodeBlock"],
      [children |-> <<>>,
       syntax |-> Some(<<"R", "u", "s", "t">>),
       lines |-> << <<region(180, 142, 173, <<"f", "n">>), region(192, 197, 206, <<" ", "f", "0A">>)>>,
                    <<region(192, 197, 206, <<"x", ">", "y">>)>> >>,
       kind |-> "CodeBlock"] }

LeafSamples ==
    { NFrontMatter(Some(FrontMatterValue)), NFrontMatter(None),
      Node("DescriptionList", <<description_item, description_item>>),
      description_item,
      [children |-> <<>>, kind |-> "HtmlBlock", literal |-> <<"<", "h", "r", ">">>],
      NHeading(3, <<NText(<<"T">>)>>),
      Node("ThematicBreak", <<>>),
      NFootnoteDefinition(Label1, <<NParagraph(<<NText(<<"n">>)>>)>>),
      table_of(<<"Left">>),
      NTable(<<"Left">>, <<>>),
      NTableRow(TRUE, <<NTableCell(<<NText(<<"h">>)>>)>>),
      NTableRow(FALSE, <<NTableCell(<<NText(<<"c">>)>>)>>),
      NText(MarkupText),
      [children |-> <<NParagraph(<<NText(<<"d", "o">>)>>)>>, kind |-> "TaskItem", symbol |-> Some("x")],
      [children |-> <<NParagraph(<<NText(<<"d", "o">>)>>)>>, kind |-> "TaskItem", symbol |-> None],
      Node("SoftBreak", <<>>), Node("LineBreak", <<>>),
      NCode(<<"x", "<", "y">>), NHtmlInline(<<"<", "b", "r", ">">>),
      NImage(<<"i", ".", "p", "n", "g">>, <<>>, <<NText(<<"a", "l", "t">>)>>),
      NImage(<<"i", ".", "p", "n", "g">>, <<>>, <<>>),
      NImage(<<"i", ".", "p", "n", "g">>, <<"c", "a", "p">>, <<NText(<<"a", "l", "t">>)>>),
      NImage(<<"i", ".", "p", "n", "g">>, <<>>, <<Node("Emph", <<NText(<<"e">>)>>)>>),
      NFootnoteReference(Label1),
      [children |-> <<>>, emoji |-> <<"F0", "9F", "98", "84">>, kind |-> "ShortCode"] }
    \cup {NLink(u.url, t, u.href, c) :
            u \in LinkUrls, t \in {<<>>, <<"t">>}, c \in {<<>>, <<NText(<<"l">>)>>}}
    \cup CodeBlockSamples

NodeSamples == ContainerSamples \cup LeafSamples

NodesInit ==
    /\ pc = "call"
    /\ overflow_checks \in BOOLEAN
    /\ arg \in NodeSamples
    /\ ret = Idle
    /\ state = state_default(DomainName)
    /\ doc = Idle /\ section = Idle /\ html = Idle /\ out = Idle
    /\ heading_levels = Idle
    /\ cmd = Idle /\ files = Idle

IterNodes ==
    /\ pc = "call"
    /\ LET r == iter_nodes(overflow_checks, arg, state)
       IN  ret' = r.tag /\ state' = r.st
    /\ pc' = "return"
    /\ UNCHANGED <<overflow_checks, doc, section, html, out, arg, heading_levels, cmd, files>>

SpecNodes == NodesInit /\ [][IterNodes]_vars

\* the accumulator iter_nodes holds when it reaches the i-th child of the node: the
\* one the traversal of the node cut before that child leaves
C13_StateBefore(i) ==
    iter_nodes(overflow_checks, [arg EXCEPT !.children = SubSeq(@, 1, i - 1)],
               state_default(DomainName)).st

C13_KindsWithoutOutput == {"FrontMatter", "DescriptionItem", "FootnoteDefinition"}

\* C13: every node kind has its arm in iter_nodes: the kinds whose arm gives the empty
\* node are the front matter, the footnote definition (both recorded in the
\* accumulator) and the description item (its children are taken by the description
\* list's arm); and a plain container gives its tag without attributes over the
\* transductions of its children, one per child, in their order
C13_EveryKindAndPlainContainers ==
    /\ {n.kind : n \in NodeSamples} = NODE_KINDS
    /\ (pc = "return" /\ ~halted(state)) =>
        /\ (ret = Empty) <=> (arg.kind \in C13_KindsWithoutOutput)
        /\ arg.kind = "FrontMatter" => state.front_matter = arg.toml
        /\ arg.kind = "FootnoteDefinition" =>
                Len(state.definitions) = 1 /\ state.definitions[1][1] = arg.name
        /\ arg.kind = "DescriptionList" =>
                /\ ret.tag = "Dl"
                /\ Len(ret.children) = Len(grandchildren(arg.children))
                /\ \A i \in 1..Len(ret.children) :
                        ret.children[i].tag \in {"Dt", "Dd"}
        /\ arg.kind \in PlainContainers =>
                /\ ret.tag = plain_container_tag(arg)
                /\ ret.attrs = <<>>
                /\ Len(ret.children) = Len(arg.children)
                /\ \A i \in 1..Len(arg.children) :
                        ret.children[i] =
                            iter_nodes(overflow_checks, arg.children[i], C13_StateBefore(i)).tag

\* a list of two items whose outputs differ
C13_Witness ==
    /\ pc = "return"
    /\ arg.kind = "List"
    /\ Len(arg.children) = 2
    /\ ret.tag = "Ol"
    /\ ret.children[1] # ret.children[2]
    /\ ret.children[2].tag = "Li"

-----------------------------------------------------------------------------
(* Specification of write_recursive on output trees (html.rs 165-214): void  *)
(* nodes, text, raw text and empty nodes under containers nested             *)
(* three deep.                                                               *)

AttrSamples == {<<>>, <<"id=\"a\"", "class=\"b\"">>}

Seqs(S, n) == UNION {[1..k -> S] : k \in 0..n}

ElementLeaves ==
    { El("Br", MetaNew), El("Img", with_attrs(MetaNew, <<"src=\"i\"", "alt=\"\"">>)),
      Text(<<"t">>), Raw(<<"<", "r", ">">>), Empty }

ElementLevel1 ==
    {El(t, with_attrs(with_children(MetaNew, c), a)) :
        t \in {"Span", "A", "Li"}, a \in AttrSamples, c \in Seqs(ElementLeaves, MaxChildren)}

ElementLevel2 ==
    {El(t, with_children(MetaNew, c)) :
        t \in {"Ul", "P"},
        c \in Seqs({e \in ElementLevel1 : e.tag = "Li" /\ Len(e.children) <= 1}
                     \cup {El("Hr", MetaNew), Empty}, MaxChildren)}

ElementLevel3 ==
    {El("Body", with_children(MetaNew, <<e, El("Div", with_child(MetaNew, e))>>)) :
        e \in {x \in ElementLevel2 : Len(x.children) = MaxChildren /\ x.tag = "Ul"}}

ElementSamples == ElementLeaves \cup ElementLevel1 \cup ElementLevel2 \cup ElementLevel3

WriteInit ==
    /\ pc = "call"
    /\ overflow_checks = FALSE
    /\ arg \in ElementSamples
    /\ ret = Idle
    /\ FnIdle

WriteRecursive ==
    /\ pc = "call"
    /\ ret' = write_recursive(arg)
    /\ pc' = "return"
    /\ UNCHANGED <<overflow_checks, doc, state, section, html, out, arg, heading_levels, cmd, files>>

SpecWrite == WriteInit /\ [][WriteRecursive]_vars

RECURSIVE C15_Expected(_)
\* the writes the claim gives for a node: "<tag", the attributes and ">" for a void
\* node; the same, the children in order and "</tag>" for a container; nothing for the
\* empty node
C15_Expected(e) ==
    LET opening == <<"<" \o tag_name(e.tag)>> \o [i \in 1..Len(e.attrs) |-> " " \o e.attrs[i]]
                        \o <<">">>
    IN  CASE e.tag \in VoidTags -> opening
          [] e.tag \in ContainerTags ->
                opening \o Concat([i \in 1..Len(e.children) |-> C15_Expected(e.children[i])])
                    \o <<"</" \o tag_name(e.tag) \o ">">>
          [] e.tag = "Empty" -> <<>>
          [] OTHER -> <<Str(e.s)>>

C15_Opening(t) == "<" \o tag_name(t)
C15_Closing(t) == "</" \o tag_name(t) \o ">"

RECURSIVE C15_Nested(_, _)
\* the writes from the i-th on close the containers of the stack, last opened first,
\* and every container they open
C15_Nested(writes, stack) ==
    IF writes = <<>> THEN stack = <<>>
    ELSE LET w == Head(writes)
         IN  IF \E t \in ContainerTags : w = C15_Opening(t)
             THEN C15_Nested(Tail(writes),
                             <<CHOOSE t \in ContainerTags : w = C15_Opening(t)>> \o stack)
             ELSE IF \E t \in ContainerTags \cup VoidTags : w = C15_Closing(t)
             THEN /\ stack # <<>>
                  /\ w = C15_Closing(Head(stack))
                  /\ C15_Nested(Tail(writes), Tail(stack))
             ELSE C15_Nested(Tail(writes), stack)

\* C15: a void node is written as its opening tag alone, a container as its opening
\* tag, its children in order and its closing tag, the empty node as nothing; the
\* closing tags of the output match the opening tags of the containers, last opened
\* first closed
C15_VoidContainerNesting ==
    pc = "return" =>
        /\ ret = C15_Expected(arg)
        /\ C15_Nested(ret, <<>>)
        /\ arg = Empty => ret = <<>>

\* a container three levels above a void node and above an empty node
C15_Witness ==
    /\ pc = "return"
    /\ arg.tag = "Body"
    /\ \E i \in 1..Len(ret) : ret[i] = "<hr"
    /\ \E i \in 1..Len(ret) : ret[i] = "<li" /\ ret[i + 1] = ">" /\ ret[i + 2] = "</li>"
    /\ Len(ret) > 12

\* the url of the link has a host, and it is not the domain of the accumulator
C20_HostDiffers ==
    /\ arg.href.some
    /\ arg.href.v.host # "none"
    /\ arg.href.v.name # state.domain

C20_Marker == El("Span", with_attr(MetaNew, ExternalMarkAttr))

\* C20: the output of a link is an a node with the attributes href, title,
\* target="_blank" and rel="noreferrer" in this order, over the transduced children,
\* followed by the external-link marker exactly when the host of the url differs from
\* the domain
C20_MarkerIffHostDiffers ==
    (pc = "return" /\ arg.kind = "Link") =>
        LET n == Len(arg.children)
        IN  /\ ret.tag = "A"
            /\ ret.attrs = <<"href=\"" \o Str(arg.url) \o "\"",
                             "title=\"" \o Str(arg.title) \o "\"",
                             "target=\"_blank\"", "rel=\"noreferrer\"">>
            /\ \A i \in 1..n :
                    ret.children[i] = iter_nodes(overflow_checks, arg.children[i],
                                                 state_default(DomainName)).tag
            /\ IF C20_HostDiffers THEN ret.children = SubSeq(ret.children, 1, n) \o <<C20_Marker>>
               ELSE Len(ret.children) = n

\* the attributes the claim gives the img of an image: src, alt when the first child
\* is a text, title when there is one
C21_Attrs ==
    <<"src=\"" \o Str(arg.url) \o "\"">>
    \o (IF arg.children # <<>> /\ arg.children[1].kind = "Text"
        THEN <<"alt=\"" \o Str(arg.children[1].text) \o "\"">> ELSE <<>>)
    \o (IF arg.title # <<>> THEN <<"title=\"" \o Str(arg.title) \o "\"">> ELSE <<>>)

\* C21: iter_nodes returns for every image, with or without children: a bare img with
\* src, and alt when the first child is a text, or with a title the figure over that
\* img and the figcaption
C21_ImageNeverFails ==
    (pc = "return" /\ arg.kind = "Image") =>
        /\ ~halted(state)
        /\ IF arg.title = <<>>
           THEN ret = El("Img", with_attrs(MetaNew, C21_Attrs))
           ELSE ret = El("Figure", with_children(MetaNew,
                        <<El("Img", with_attrs(MetaNew, C21_Attrs)),
                          El("Figcaption", with_child(MetaNew, Text(arg.title)))>>))

-----------------------------------------------------------------------------
(* Specification of iter_nodes on tables (main.rs 169-237): one or two       *)
(* columns, the header row and up to MaxChildren body rows.                  *)

\* the inline children of a cell
CellSamples ==
    { <<>>, <<NText(<<"c">>)>>, <<NCode(<<"x">>), NText(<<"d", " ", "e">>)>> }

\* the rows of n cells
RowSamples(header, n) == {NTableRow(header, cells) : cells \in [1..n -> {NTableCell(c) : c \in CellSamples}]}

TableSamples ==
    UNION { { NTable(alignments, <<h>> \o body) :
                h \in RowSamples(TRUE, Len(alignments)),
                body \in Seqs(RowSamples(FALSE, Len(alignments)), MaxChildren) } :
            alignments \in {<<"Left">>, <<"Center", "Right">>} }

TablesInit ==
    /\ pc = "call"
    /\ overflow_checks \in BOOLEAN
    /\ arg \in TableSamples
    /\ ret = Idle
    /\ state = state_default(DomainName)
    /\ doc = Idle /\ section = Idle /\ html = Idle /\ out = Idle
    /\ heading_levels = Idle
    /\ cmd = Idle /\ files = Idle

SpecTables == TablesInit /\ [][IterNodes]_vars

\* the transduced children of a cell
C22_Transduced(cell) ==
    [j \in 1..Len(cell.children) |->
        iter_nodes(overflow_checks, cell.children[j], state_default(DomainName)).tag]

\* the tr of a row whose cells are wrapped in the tag
C22_Row(row, cell_tag) ==
    El("Tr", with_children(MetaNew,
        [i \in 1..Len(row.children) |->
            El(cell_tag, with_children(MetaNew, C22_Transduced(row.children[i])))]))

\* C22: a table of the rows r1..rm gives a table node with two children, the thead
\* over one tr for r1 whose cells are th nodes over the transduced children of the
\* cells, and the tbody over one tr per row r2..rm, in order, whose cells are td nodes
C22_TheadAndTbody ==
    (pc = "return" /\ arg.kind = "Table" /\ arg.children # <<>>) =>
        /\ ~halted(state)
        /\ ret.tag = "Table"
        /\ Len(ret.children) = 2
        /\ ret.children[1] = El("Thead", with_child(MetaNew, C22_Row(arg.children[1], "Th")))
        /\ ret.children[2] =
                El("Tbody", with_children(MetaNew,
                    [i \in 1..(Len(arg.children) - 1) |-> C22_Row(arg.children[i + 1], "Td")]))

\* a table of two columns and three rows that differ
C22_Witness ==
    /\ pc = "return"
    /\ arg.kind = "Table"
    /\ Len(arg.alignments) = 2
    /\ Len(arg.children) = 3
    /\ arg.children[2].children # arg.children[3].children
    /\ Len(ret.children[2].children) = 2
    /\ ret.children[1].children[1].children[2].tag = "Th"
    /\ ret.children[1].children[1].children[2].children # <<>>

-----------------------------------------------------------------------------
(* Specification of the documents made of front-matter blocks only: the      *)
(* blocks parse to one of four values or fail to parse.                      *)

\* the front matter of the title
FrontMatterTitled(title) == [FrontMatterValue EXCEPT !.title = title]

FrontMatterBlocks ==
    {Some(FrontMatterTitled(title)) : title \in {<<"P">>, <<"Q">>, <<"R">>, <<"S">>}}
    \cup {None}

VisitFrontMatterBlock == \E toml \in FrontMatterBlocks : Visit(NFrontMatter(toml))

SpecFrontMatter == Init /\ [][VisitFrontMatterBlock]_vars

\* every block of the document so far parsed
C23_AllParsed == \A i \in 1..Len(doc) : doc[i].toml.some

\* C23: every front-matter block overwrites front_matter with its own value, sets date
\* and gives an empty node: after several blocks front_matter is the value of the last
\* one, nothing else of the state has changed and the traversal goes on
C23_LastBlockWins ==
    (doc # <<>> /\ C23_AllParsed) =>
        /\ pc = "traverse"
        /\ state = [state_default(DomainName) EXCEPT
                        !.front_matter = doc[Len(doc)].toml, !.date = DATE_NOW]
        /\ section = [i \in 1..Len(doc) |-> Empty]

\* three blocks of three values
C23_Witness ==
    /\ Len(doc) = 3
    /\ C23_AllParsed
    /\ doc[1] # doc[2] /\ doc[2] # doc[3] /\ doc[1] # doc[3]
    /\ state.front_matter = doc[3].toml
    /\ state.front_matter # doc[1].toml

-----------------------------------------------------------------------------
(* Specification of the State along a traversal: the documents made of the   *)
(* paragraphs of the menu, footnote definitions, tables and headings.        *)

StateNext ==
    \/ VisitParagraph
    \/ VisitFootnoteDefinition
    \/ VisitTable
    \/ VisitHeading

SpecState == Init /\ [][StateNext]_vars

\* s is t with entries appended at its end
C24_Extends(t, s) == Len(t) <= Len(s) /\ SubSeq(s, 1, Len(t)) = t

\* the number of tables among the nodes
C24_Tables(nodes) == Cardinality({i \in 1..Len(nodes) : nodes[i].kind = "Table"})

C24_Step ==
    (pc = "traverse" /\ doc' # doc) =>
        /\ state'.table_counter = state.table_counter + C24_Tables(<<doc'[Len(doc')]>>)
        /\ state'.table_counter = C24_Tables(doc')
        /\ state'.word_count >= state.word_count
        /\ C24_Extends(state.styles, state'.styles)
        /\ C24_Extends(state.headings, state'.headings)
        /\ C24_Extends(state.definitions, state'.definitions)
        /\ state'.domain = state.domain
        /\ state.domain = DomainName

\* C24: at every step of a traversal table_counter and word_count do not decrease,
\* table_counter grows from 0 by one per table, styles, headings and definitions
\* grow at their end only, and domain keeps the value it was seeded with
C24_StateOnlyGrows == [][C24_Step]_vars

\* a table of one column after a heading after a table of three columns
C24_Witness ==
    /\ pc = "traverse"
    /\ Len(doc) = 3
    /\ doc[3].kind = "Table"
    /\ state.table_counter = 2
    /\ state.word_count > 0
    /\ Len(state.styles) = 4
    /\ state.styles[4] = table_rule(2, 0, "Right")
    /\ Len(state.headings) = 1

-----------------------------------------------------------------------------
(* Specification of the TOC of the returned tree: the documents made of      *)
(* front-matter blocks and the headings of the menu, assembled by init.      *)

ContentsNext ==
    \/ VisitFrontMatter
    \/ VisitHeadings
    \/ Assemble

SpecContents == Init /\ [][ContentsNext]_vars

\* the Div of the TOC in the returned tree: the second child of the Details, the
\* seventh child of the body
C25_Toc == html.children[2].body.children[7].children[2]

\* the heading nodes of the content tree, in order
C25_HeadingNodes == SelectSeq(section, LAMBDA e : e.tag \in {"H1", "H2", "H3", "H4", "H5", "H6"})

RECURSIVE C25_Counters(_)
\* the counters of the numbering after the headings
C25_Counters(headings) ==
    IF headings = <<>> THEN heading_levels_init
    ELSE bump_levels(C25_Counters(SubSeq(headings, 1, Len(headings) - 1)),
                     headings[Len(headings)][1])

\* the numeral of the i-th heading
C25_Numeral(i) ==
    format_numeral(C25_Counters(SubSeq(state.headings, 1, i)), state.headings[i][1])

\* C25: the TOC of the returned tree has one entry per element of headings, in the
\* same order; the entry of (level, id, title) is a P indented by 20 px per level over
\* a link with the href "#heading__{id}" and the label "{numeral}. {title}", and the
\* i-th heading node of the content tree has the id attribute "heading__{id}"
C25_TocEntryPerHeading ==
    pc = "assembled" =>
        /\ C25_Toc.tag = "Div"
        /\ Len(C25_Toc.children) = Len(state.headings)
        /\ Len(C25_HeadingNodes) = Len(state.headings)
        /\ \A i \in 1..Len(state.headings) :
                LET level == state.headings[i][1]
                    id == state.headings[i][2]
                    title == state.headings[i][3]
                    entry == C25_Toc.children[i]
                IN  /\ entry.tag = "P"
                    /\ entry.attrs = <<"style=\"padding-left: " \o ToString(20 * level) \o "px\"">>
                    /\ Len(entry.children) = 1
                    /\ entry.children[1].tag = "A"
                    /\ entry.children[1].attrs = <<"href=\"#heading__" \o Str(id) \o "\"">>
                    /\ entry.children[1].children
                            = <<Text(C25_Numeral(i) \o <<".", " ">> \o title)>>
                    /\ C25_HeadingNodes[i].tag = "H" \o ToString(level)
                    /\ C25_HeadingNodes[i].attrs[1] = "id=\"heading__" \o Str(id) \o "\""

\* the tree of a document with two headings of two levels and two ids
C25_Witness ==
    /\ pc = "assembled"
    /\ Len(state.headings) = 2
    /\ state.headings[1][1] < state.headings[2][1]
    /\ state.headings[1][2] # state.headings[2][2]
    /\ Len(C25_Toc.children) = 2

-----------------------------------------------------------------------------
(* The resolver on definitions never referenced and on the label "0" *)

\* the position label - 1 of every definition is within the list built before it
\* when the label is not "0"
C26_PositionsWithin ==
    \A d \in 1..Len(arg.definitions) : parse_usize(arg.definitions[d][1]).v <= d

\* the back-reference anchors of a list item: the children of its Div after the
\* content of the definition
C26_Anchors(item, definition) == Len(item.children[1].children) - Len(definition[2])

\* C26: the resolver completes for every recorded definition, also for one whose
\* label has no entry in footnote_counter and for one whose label is "0": the lookup
\* of the counter and the position label - 1 do not fail, and a definition never
\* referenced gives a list item with its content and no back-reference anchor
C26_ResolverNeverFails ==
    (pc = "return" /\ C26_PositionsWithin) =>
        /\ ret.halt = "none"
        /\ Len(ret.footnotes) = Len(arg.definitions)
        /\ \A d \in 1..Len(arg.definitions) :
                arg.definitions[d][1] \notin DOMAIN arg.footnote_counter =>
                    \E k \in 1..Len(ret.footnotes) :
                        /\ ret.footnotes[k].children[1].attrs
                              = <<"id=\"footnote-definition-" \o Str(arg.definitions[d][1]) \o "\"">>
                        /\ C26_Anchors(ret.footnotes[k], arg.definitions[d]) = 0

-----------------------------------------------------------------------------
(* The shape of the ids of heading_to_slug *)

\* C27: an id returned by heading_to_slug holds the characters a-z, 0-9 and "-" only,
\* has no "-" at its start or its end and no two "-" in a row, and the id derived from
\* an id is the id itself
C27_IdShape ==
    pc = "return" =>
        /\ \A i \in 1..Len(ret.id) : ret.id[i] \in C4_IdChars \cup {"-"}
        /\ ret.id # <<>> => (ret.id[1] # "-" /\ ret.id[Len(ret.id)] # "-")
        /\ \A i \in 1..(Len(ret.id) - 1) : ~(ret.id[i] = "-" /\ ret.id[i + 1] = "-")
        /\ heading_to_slug(<<Text(ret.id)>>).id = ret.id

\* a title with "-" at both ends, a run of separators and a char outside ASCII, and
\* its id with a "-" inside
C27_Witness ==
    /\ pc = "return"
    /\ Len(ret.title) > 5
    /\ ret.title[1] = "-" /\ ret.title[2] = "-"
    /\ ret.title[Len(ret.title)] = ","
    /\ \E i \in 1..Len(ret.title) : ret.title[i] = "C3"
    /\ Len(ret.id) > 2
    /\ \E i \in 2..(Len(ret.id) - 1) : ret.id[i] = "-"

====
